---------------------------- MODULE Spec2Model ----------------------------
(***************************************************************************)
(* Conway's Game of Life: the engine (game_of_life_engine.py), the         *)
(* controller (game_of_life_controller.py) and the geometry of the view    *)
(* (game_of_life_view.py).                                                 *)
(*                                                                         *)
(* A NumPy array is a record [shape |-> <<nr, nc>>, data |-> f] with f a   *)
(* function on (0..nr-1) \X (0..nc-1); its elements are int8.  Arrays live *)
(* in a heap of objects and are named by references, so that in-place      *)
(* writes (set_cell, clear) and rebinding (step, load) are told apart and  *)
(* a copy is a different object from the array it was copied from.         *)
(***************************************************************************)
EXTENDS Integers, Sequences, FiniteSets, TLC

VARIABLES
    rows,        \* self.rows
    cols,        \* self.cols
    grid_ref,    \* self.grid: a reference into heap
    heap,        \* reference -> array, or Freed
    snap_ref,    \* the array the caller holds from get_grid_copy, or NoRef
    neighbors,   \* the array count_neighbors returned last
    op,          \* name of the operation performed last
    arg,         \* its (row, col, state) arguments
    file,        \* the file load_pattern_from_file was given
    ret,         \* the integer it returned (get_cell)
    exc,         \* the exception it raised, or NoExc
    pre,         \* rows, cols, grid, snapshot and controller before it
    controller,  \* is_running, generation, loaded_filename, target_fps
    view,        \* the view's grid dimensions, cell size and layout
    input,       \* what the controller was last given: key or button, fps, path
    clicked,     \* the cell the view maps the click being handled to, or None
    steps,       \* calls of engine.step() since the construction, the last
                 \* clear_grid or the last load_pattern that loaded a file
    frame,       \* what view.render was handed by the call performed last
    raised,      \* the exception the controller's method let out, or NoExc
    loop         \* where run() is: its position, its local running, the events
                 \* pygame.event.get() returned that are not handled yet,
                 \* whether a C key cleared live cells

vars == <<rows, cols, grid_ref, heap, snap_ref, neighbors,
          op, arg, file, ret, exc, pre, controller, view, input, clicked,
          steps, frame, raised, loop>>

---------------------------------------------------------------------------
(* Bounds of the model.                                                    *)

\* grids of the single-operation specifications
MaxRows == 3
MaxCols == 3
\* cells of the grids count_neighbors and step are applied to
MaxCells == 11
\* live cells of the grids get_cell / set_cell are applied to
MaxLive == 2
\* grids the engine is constructed with in the operation-sequence machine
SeqRows == 2
SeqCols == 2
\* grids of the specifications that pair every grid with a held snapshot
\* (SpecSnap) or with every file (SpecLoad)
SmallRows == 1
SmallCols == 2
\* cells of the grids load_pattern_from_file is applied to
MaxLoadCells == 2
\* length of the files of the operation-sequence machines
MaxFileLen == 1
\* length of the files load_pattern_from_file is applied to on its own
MaxLen == 5
\* cell sizes in pixels of the views whose every pixel is clicked
MaxCellSize == 3
\* grids the controller is constructed with, and their cells
CtlRows == 2
CtlCols == 2
MaxCtlCells == 2
\* generations the controller counts
MaxGeneration == 1
\* speeds set_simulation_speed is given, from -1
MaxSpeed == 1

---------------------------------------------------------------------------
(* int8 arithmetic and arrays.                                             *)

Min(a, b) == IF a < b THEN a ELSE b
Max(a, b) == IF a > b THEN a ELSE b

\* value of an integer stored into an element four bits wide
Int4(x) == ((x + 8) % 16) - 8

\* value of an integer stored into an int8 element
Int8(x) == ((x + 128) % 256) - 128

Indices(nr, nc) == (0 .. nr - 1) \X (0 .. nc - 1)

\* np.zeros((nr, nc), dtype=np.int8)
Zeros(nr, nc) == [shape |-> <<nr, nc>>, data |-> [p \in Indices(nr, nc) |-> 0]]

NRows(a) == a.shape[1]
NCols(a) == a.shape[2]

\* Python slices over an axis of length n, as <<start, stop>>
SliceAll(n) == <<0, n>>                    \* [:]
SliceButLastWhole(n) == <<0, n>>           \* [:-1] written as [:]
SliceButLast(n) == <<0, Max(n - 1, 0)>>    \* [:-1]
SliceFromOne(n) == <<Min(1, n), n>>        \* [1:]

InSlice(i, s) == s[1] <= i /\ i < s[2]

\* number of indices a slice selects
Extent(s) == Max(s[2] - s[1], 0)

\* NumPy broadcasts a source axis onto a destination axis of the same
\* extent, or of any extent when the source's is 1
BroadcastsTo(s, d) == Extent(s) = Extent(d) \/ Extent(s) = 1

\* the source index that lands on destination index i
SourceIndex(i, d, s) == IF s[2] - s[1] = 1 THEN s[1] ELSE i - d[1] + s[1]

\* dst[dr, dc] += src[sr, sc] (int8 elements); dst is left as it was when the
\* operands cannot be broadcast together and the statement raises
IAddSlice(dst, dr, dc, src, sr, sc) ==
    IF ~(BroadcastsTo(sr, dr) /\ BroadcastsTo(sc, dc)) THEN dst
    ELSE [dst EXCEPT !.data =
            [p \in DOMAIN dst.data |->
                IF InSlice(p[1], dr) /\ InSlice(p[2], dc)
                THEN Int8(dst.data[p]
                          + src.data[<<SourceIndex(p[1], dr, sr),
                                       SourceIndex(p[2], dc, sc)>>])
                ELSE dst.data[p]]]

---------------------------------------------------------------------------
(* The engine's operations on array values.                                *)

\* neighbour counting that wraps around the edges, as np.roll would
CountNeighborsWrapped(g) ==
    [shape |-> g.shape,
     data |-> [p \in DOMAIN g.data |->
        LET at(dr, dc) == g.data[<<(p[1] + dr + NRows(g)) % NRows(g),
                                   (p[2] + dc + NCols(g)) % NCols(g)>>]
        IN  at(1, 0) + at(-1, 0) + at(0, 1) + at(0, -1)
            + at(1, 1) + at(-1, -1) + at(1, -1) + at(-1, 1)]]

\* the eight slice additions of count_neighbors on an nr x nc grid, each as
\* <<destination rows, destination columns, source rows, source columns>>
Shifts(nr, nc) ==
    LET A(n) == SliceAll(n)
        L(n) == SliceButLast(n)
        H(n) == SliceFromOne(n)
    IN  << <<L(nr), A(nc), H(nr), A(nc)>>,    \* bottom
           <<H(nr), A(nc), L(nr), A(nc)>>,    \* top
           <<A(nr), L(nc), A(nr), H(nc)>>,    \* right
           <<A(nr), H(nc), A(nr), L(nc)>>,    \* left
           <<L(nr), L(nc), H(nr), H(nc)>>,    \* bottom-right
           <<H(nr), H(nc), L(nr), L(nc)>>,    \* top-left
           <<L(nr), H(nc), H(nr), L(nc)>>,    \* bottom-left
           <<H(nr), L(nc), L(nr), H(nc)>> >>  \* top-right

\* ValueError: operands could not be broadcast together
BroadcastError ==
    [type |-> "ValueError", kind |-> "broadcast", line |-> 0, length |-> 0,
     expected |-> 0, ch |-> "", i |-> 0, j |-> 0]

\* whether one of the slice additions of count_neighbors raises on g
CountNeighborsRaises(g) ==
    \E k \in 1 .. 8 :
        LET s == Shifts(NRows(g), NCols(g))[k]
        IN  ~(BroadcastsTo(s[3], s[1]) /\ BroadcastsTo(s[4], s[2]))

\* count_neighbors: eight shifted slice additions into a zero array
CountNeighborsOf(g) ==
    LET s == Shifts(NRows(g), NCols(g))
        n0 == Zeros(NRows(g), NCols(g))
        n1 == IAddSlice(n0, s[1][1], s[1][2], g, s[1][3], s[1][4])
        n2 == IAddSlice(n1, s[2][1], s[2][2], g, s[2][3], s[2][4])
        n3 == IAddSlice(n2, s[3][1], s[3][2], g, s[3][3], s[3][4])
        n4 == IAddSlice(n3, s[4][1], s[4][2], g, s[4][3], s[4][4])
        n5 == IAddSlice(n4, s[5][1], s[5][2], g, s[5][3], s[5][4])
        n6 == IAddSlice(n5, s[6][1], s[6][2], g, s[6][3], s[6][4])
        n7 == IAddSlice(n6, s[7][1], s[7][2], g, s[7][3], s[7][4])
        n8 == IAddSlice(n7, s[8][1], s[8][2], g, s[8][3], s[8][4])
    IN  n8

\* a rule under which a live cell survives with exactly 3 neighbours only
NextCellSurvive3(cell, n) == IF n = 3 THEN 1 ELSE 0

\* a rule under which a live cell survives with exactly 2 neighbours only
NextCellSurvive2(cell, n) ==
    IF (cell = 1 /\ n = 2) \/ (cell = 0 /\ n = 3) THEN 1 ELSE 0

\* the rule with `|` in the place of `&` in birth
NextCellBirthOr(cell, n) ==
    LET survive == (cell = 1) /\ ((n = 2) \/ (n = 3))
        birth == (cell = 0) \/ (n = 3)
    IN  IF survive \/ birth THEN 1 ELSE 0

\* the rule with a live cell tested as `self.grid != 0`
NextCellTruthy(cell, n) ==
    LET survive == (cell # 0) /\ ((n = 2) \/ (n = 3))
        birth == (cell = 0) /\ (n = 3)
    IN  IF survive \/ birth THEN 1 ELSE 0

\* the survive / birth rule of step, for one cell
NextCell(cell, n) ==
    LET survive == (cell = 1) /\ ((n = 2) \/ (n = 3))
        birth == (cell = 0) /\ (n = 3)
    IN  IF survive \/ birth THEN 1 ELSE 0

\* a step that updates the cells one after another in the array it reads
RECURSIVE StepInPlaceFrom(_, _)
StepInPlaceFrom(a, k) ==
    IF k >= NRows(a) * NCols(a) THEN a
    ELSE LET p == <<k \div NCols(a), k % NCols(a)>>
         IN  StepInPlaceFrom(
                 [a EXCEPT !.data[p] = NextCell(@, CountNeighborsOf(a).data[p])],
                 k + 1)
StepOfInPlace(g) == StepInPlaceFrom(g, 0)

\* step: the array self.grid is rebound to
StepOf(g) ==
    LET nb == CountNeighborsOf(g)
    IN  [shape |-> g.shape,
         data |-> [p \in DOMAIN g.data |-> NextCell(g.data[p], nb.data[p])]]

---------------------------------------------------------------------------
(* Pattern files.                                                          *)

Alphabet == {"0", "1", "\n", " ", "X"}

\* the characters str.strip() removes
IsSpace(ch) == ch \in {" ", "\n"}

RECURSIVE LStrip(_)
LStrip(s) == IF s # <<>> /\ IsSpace(Head(s)) THEN LStrip(Tail(s)) ELSE s

RECURSIVE RStrip(_)
RStrip(s) ==
    IF s # <<>> /\ IsSpace(s[Len(s)]) THEN RStrip(SubSeq(s, 1, Len(s) - 1)) ELSE s

\* str.lstrip()
StripLeading(s) == LStrip(s)

\* str.strip()
Strip(s) == RStrip(LStrip(s))

\* str.split('\n'): never the empty list
RECURSIVE Split(_)
Split(s) ==
    IF s = <<>> THEN << <<>> >>
    ELSE LET rest == Split(Tail(s))
         IN  IF Head(s) = "\n" THEN << <<>> >> \o rest
             ELSE << <<Head(s)>> \o Head(rest) >> \o Tail(rest)

NoFile == [exists |-> FALSE, content |-> <<>>]
FileOf(content) == [exists |-> TRUE, content |-> content]

\* every text of at most n characters
Texts(n) == UNION {[1 .. k -> Alphabet] : k \in 0 .. n}

NoExc ==
    [type |-> "none", kind |-> "", line |-> 0, length |-> 0, expected |-> 0,
     ch |-> "", i |-> 0, j |-> 0]
FileNotFoundError == [NoExc EXCEPT !.type = "FileNotFoundError"]
EmptyFileError == [NoExc EXCEPT !.type = "ValueError", !.kind = "Empty file"]
\* ValueError(f"Line {i+1} has length {len(line)}, expected {n}")
LineLengthError(i, len, n) ==
    [NoExc EXCEPT !.type = "ValueError", !.kind = "Line",
                  !.line = i + 1, !.length = len, !.expected = n]
\* ValueError(f"Invalid character '{char}' at position ({i}, {j})")
InvalidCharError(c, i, j) ==
    [NoExc EXCEPT !.type = "ValueError", !.kind = "Invalid character",
                  !.ch = c, !.i = i, !.j = j]
IndexError == [NoExc EXCEPT !.type = "IndexError"]

\* p is visited before q by the nested loops over (i, j)
Before(p, q) == p[1] < q[1] \/ (p[1] = q[1] /\ p[2] < q[2])

\* the last line whose length is not n: its line index, or -1
LastBadLine(lines, n) ==
    LET bad == {i \in 0 .. Len(lines) - 1 : Len(lines[i + 1]) # n}
    IN  IF bad = {} THEN -1 ELSE CHOOSE i \in bad : \A k \in bad : i >= k

\* the first length check that fails: its line index, or -1
FirstBadLine(lines, n) ==
    LET bad == {i \in 0 .. Len(lines) - 1 : Len(lines[i + 1]) # n}
    IN  IF bad = {} THEN -1 ELSE CHOOSE i \in bad : \A k \in bad : i <= k

\* parsing loops that store character i of line j at [i, j]
ParseCellsTransposed(lines, n) ==
    [new_grid |->
        [shape |-> <<n, n>>,
         data |-> [p \in Indices(n, n) |->
                      IF lines[p[2] + 1][p[1] + 1] = "1" THEN 1 ELSE 0]],
     exc |-> IF \A p \in Indices(n, n) : lines[p[1] + 1][p[2] + 1] \in {"0", "1"}
             THEN NoExc ELSE InvalidCharError("?", 0, 0)]

\* the parsing loops over n lines of n characters: new_grid as the loops leave
\* it, and the exception that ended them
ParseCells(lines, n) ==
    LET at(p) == lines[p[1] + 1][p[2] + 1]
        bad == {p \in Indices(n, n) : at(p) \notin {"0", "1"}}
        stop == CHOOSE p \in bad : \A q \in bad : p = q \/ Before(p, q)
        reached(p) == bad = {} \/ Before(p, stop)
    IN  [new_grid |->
            [shape |-> <<n, n>>,
             data |-> [p \in Indices(n, n) |->
                          IF reached(p) /\ at(p) = "1" THEN 1 ELSE 0]],
         exc |-> IF bad = {} THEN NoExc
                 ELSE InvalidCharError(at(stop), stop[1], stop[2])]

\* a load that parses into self.grid and sets the dimensions
\* before it validates the characters
LoadResultInPlace(e, f) ==
    LET lines == Split(Strip(f.content))
        n == Len(lines)
        b == FirstBadLine(lines, n)
        parsed == ParseCells(lines, n)
    IN  IF ~f.exists THEN
            [rows |-> e.rows, cols |-> e.cols, grid |-> e.grid,
             rebound |-> FALSE, exc |-> FileNotFoundError]
        ELSE IF b # -1 THEN
            [rows |-> e.rows, cols |-> e.cols, grid |-> e.grid,
             rebound |-> FALSE, exc |-> LineLengthError(b, Len(lines[b + 1]), n)]
        ELSE [rows |-> n, cols |-> n, grid |-> parsed.new_grid,
              rebound |-> TRUE, exc |-> parsed.exc]

\* a load that forgets self.cols = n
LoadResultKeepCols(e, f) ==
    LET r == LoadResultInPlace(e, f)
    IN  IF r.exc = NoExc THEN [r EXCEPT !.cols = e.cols]
        ELSE [rows |-> e.rows, cols |-> e.cols, grid |-> e.grid,
              rebound |-> FALSE, exc |-> r.exc]

\* a load that installs an n x n grid of zeros before it validates anything
LoadResultEarlyGrid(e, f) ==
    LET lines == Split(Strip(f.content))
        n == Len(lines)
        b == FirstBadLine(lines, n)
        parsed == ParseCells(lines, n)
        x == IF b # -1 THEN LineLengthError(b, Len(lines[b + 1]), n) ELSE parsed.exc
    IN  IF ~f.exists THEN
            [rows |-> e.rows, cols |-> e.cols, grid |-> e.grid,
             rebound |-> FALSE, exc |-> FileNotFoundError]
        ELSE [rows |-> n, cols |-> n,
              grid |-> IF x = NoExc THEN parsed.new_grid ELSE Zeros(n, n),
              rebound |-> TRUE, exc |-> x]

\* a load that validates the characters of every line before any length
LoadResultCharsFirst(e, f) ==
    LET same(x) == [rows |-> e.rows, cols |-> e.cols, grid |-> e.grid,
                    rebound |-> FALSE, exc |-> x]
        lines == Split(Strip(f.content))
        n == Len(lines)
        b == FirstBadLine(lines, n)
        bad == {p \in (0 .. n - 1) \X (0 .. MaxLen) :
                   /\ p[2] < Len(lines[p[1] + 1])
                   /\ lines[p[1] + 1][p[2] + 1] \notin {"0", "1"}}
        stop == CHOOSE p \in bad : \A q \in bad : p = q \/ Before(p, q)
    IN  IF ~f.exists THEN same(FileNotFoundError)
        ELSE IF bad # {} THEN
            same(InvalidCharError(lines[stop[1] + 1][stop[2] + 1], stop[1], stop[2]))
        ELSE IF b # -1 THEN same(LineLengthError(b, Len(lines[b + 1]), n))
        ELSE [rows |-> n, cols |-> n, grid |-> ParseCells(lines, n).new_grid,
              rebound |-> TRUE, exc |-> NoExc]

\* a load that takes a missing file for an empty one
LoadResultMissingAsEmpty(e, f) ==
    LET lines == Split(Strip(f.content))
        n == Len(lines)
        b == FirstBadLine(lines, n)
        parsed == ParseCells(lines, n)
        x == IF b # -1 THEN LineLengthError(b, Len(lines[b + 1]), n) ELSE parsed.exc
    IN  IF x # NoExc
        THEN [rows |-> e.rows, cols |-> e.cols, grid |-> e.grid,
              rebound |-> FALSE, exc |-> x]
        ELSE [rows |-> n, cols |-> n, grid |-> parsed.new_grid,
              rebound |-> TRUE, exc |-> NoExc]

\* load_pattern_from_file on the engine e = [rows, cols, grid]: the engine it
\* leaves, whether self.grid was rebound, and the exception raised
LoadResult(e, f) ==
    LET same(x) == [rows |-> e.rows, cols |-> e.cols, grid |-> e.grid,
                    rebound |-> FALSE, exc |-> x]
        lines == Split(Strip(f.content))
        n == Len(lines)
        b == FirstBadLine(lines, n)
        parsed == ParseCells(lines, n)
    IN  IF ~f.exists THEN same(FileNotFoundError)
        ELSE IF Len(lines) = 0 THEN same(EmptyFileError)
        ELSE IF b # -1 THEN same(LineLengthError(b, Len(lines[b + 1]), n))
        ELSE IF parsed.exc # NoExc THEN same(parsed.exc)
        ELSE [rows |-> n, cols |-> n, grid |-> parsed.new_grid,
              rebound |-> TRUE, exc |-> NoExc]

---------------------------------------------------------------------------
(* The heap.                                                               *)

Refs == {"a", "b"}
NoRef == "none"
Freed == Zeros(0, 0)

\* the place of a new object, the references in live being held
Fresh(live) == CHOOSE r \in Refs : r \notin live

\* the heap with only the objects the references in live kept
Collect(h, live) == [r \in Refs |-> IF r \in live THEN h[r] ELSE Freed]

Grid == heap[grid_ref]
Engine == [rows |-> rows, cols |-> cols, grid |-> Grid]

\* 0 <= row < self.rows and 0 <= col < self.cols
InBounds(row, col) == 0 <= row /\ row < rows /\ 0 <= col /\ col < cols

\* NumPy's reading of an index i on an axis of length n: negative indices
\* count from the end
Norm(i, n) == IF i < 0 THEN i + n ELSE i
Pos(a, row, col) == <<Norm(row, NRows(a)), Norm(col, NCols(a))>>

\* the array has an element [row, col] (no IndexError)
Indexable(a, row, col) == Pos(a, row, col) \in DOMAIN a.data

NoArg == [row |-> 0, col |-> 0, state |-> 0]
NoArray == Freed
NoPre ==
    [rows |-> 0, cols |-> 0, grid |-> NoArray, snap |-> NoArray,
     controller |-> [is_running |-> FALSE, generation |-> 0,
                     loaded_filename |-> <<>>, target_fps |-> 0]]

\* the array the caller holds
Snapshot == IF snap_ref = NoRef THEN NoArray ELSE heap[snap_ref]

---------------------------------------------------------------------------
(* Effects of the operations on the engine, the heap and the caller's      *)
(* snapshot; what each returns or raises.                                  *)

Returns(r, nb, x) == ret' = r /\ neighbors' = nb /\ exc' = x
ReturnsNone == Returns(0, NoArray, NoExc)

\* an engine of r x c cells holding the array g, and no snapshot
EngineWith(r, c, g) ==
    /\ rows = r
    /\ cols = c
    /\ grid_ref = "a"
    /\ heap = [x \in Refs |-> IF x = "a" THEN g ELSE Freed]
    /\ snap_ref = NoRef
    /\ neighbors = NoArray
    /\ ret = 0
    /\ exc = NoExc

\* GameOfLifeEngine(r, c)
Construct(r, c) == EngineWith(r, c, Zeros(r, c))

\* no engine has been constructed
NoEngine ==
    /\ rows = 0
    /\ cols = 0
    /\ grid_ref = NoRef
    /\ heap = [x \in Refs |-> Freed]
    /\ snap_ref = NoRef
    /\ neighbors = NoArray
    /\ ret = 0
    /\ exc = NoExc

\* ValueError: negative dimensions are not allowed (np.zeros)
NegativeDimensionsError ==
    [NoExc EXCEPT !.type = "ValueError", !.kind = "negative dimensions"]

\* a constructor that refuses a grid without rows or without columns
init_positive(r, c) ==
    /\ IF r <= 0 \/ c <= 0
       THEN /\ exc' = NegativeDimensionsError
            /\ UNCHANGED <<rows, cols, grid_ref, heap>>
       ELSE /\ exc' = NoExc
            /\ rows' = r
            /\ cols' = c
            /\ grid_ref' = "a"
            /\ heap' = [heap EXCEPT !["a"] = Zeros(r, c)]
    /\ ret' = 0 /\ neighbors' = NoArray
    /\ UNCHANGED snap_ref

\* GameOfLifeEngine(r, c): when np.zeros raises, the caller gets no engine
init(r, c) ==
    /\ IF r < 0 \/ c < 0
       THEN /\ exc' = NegativeDimensionsError
            /\ UNCHANGED <<rows, cols, grid_ref, heap>>
       ELSE /\ exc' = NoExc
            /\ rows' = r
            /\ cols' = c
            /\ grid_ref' = "a"
            /\ heap' = [heap EXCEPT !["a"] = Zeros(r, c)]
    /\ ret' = 0 /\ neighbors' = NoArray
    /\ UNCHANGED snap_ref

\* set_cell without its bounds check: NumPy reads a negative index from the end
SetCellArrayUnchecked(a, row, col, state) ==
    IF Indexable(a, row, col)
    THEN [a EXCEPT !.data[Pos(a, row, col)] = Int8(state)]
    ELSE a

\* set_cell that writes [col, row]
SetCellArraySwapped(a, row, col, state) ==
    IF InBounds(row, col) /\ Indexable(a, col, row)
    THEN [a EXCEPT !.data[Pos(a, col, row)] = Int8(state)]
    ELSE a

\* the array set_cell leaves behind self.grid
SetCellArray(a, row, col, state) ==
    IF InBounds(row, col)
    THEN [a EXCEPT !.data[Pos(a, row, col)] = Int8(state)]
    ELSE a

\* set_cell(row, col, state)
set_cell(row, col, state) ==
    /\ heap' = [heap EXCEPT ![grid_ref] = SetCellArray(@, row, col, state)]
    /\ Returns(0, NoArray,
               IF InBounds(row, col) /\ ~Indexable(Grid, row, col)
               THEN IndexError ELSE NoExc)
    /\ UNCHANGED <<rows, cols, grid_ref, snap_ref>>

\* get_cell without its bounds check
GetCellValueUnchecked(row, col) ==
    IF Indexable(Grid, row, col) THEN Grid.data[Pos(Grid, row, col)] ELSE 0

\* the value get_cell returns
GetCellValue(row, col) ==
    IF InBounds(row, col) /\ Indexable(Grid, row, col)
    THEN Grid.data[Pos(Grid, row, col)]
    ELSE 0

\* get_cell(row, col)
get_cell(row, col) ==
    /\ Returns(GetCellValue(row, col), NoArray,
               IF InBounds(row, col) /\ ~Indexable(Grid, row, col)
               THEN IndexError ELSE NoExc)
    /\ UNCHANGED <<rows, cols, grid_ref, heap, snap_ref>>

\* count_neighbors()
count_neighbors ==
    /\ IF CountNeighborsRaises(Grid) THEN Returns(0, NoArray, BroadcastError)
       ELSE Returns(0, CountNeighborsOf(Grid), NoExc)
    /\ UNCHANGED <<rows, cols, grid_ref, heap, snap_ref>>

\* self.grid = x for a new array x; the array it named is released, and its
\* place reused, unless the caller's snapshot is that object
Rebind(x) ==
    \E r \in {Fresh({snap_ref})} :
        /\ grid_ref' = r
        /\ heap' = Collect([heap EXCEPT ![r] = x], {r, snap_ref})

\* a step that returns the next generation and leaves self.grid alone
step_pure ==
    /\ IF CountNeighborsRaises(Grid) THEN Returns(0, NoArray, BroadcastError)
       ELSE Returns(0, StepOf(Grid), NoExc)
    /\ UNCHANGED <<rows, cols, grid_ref, heap, snap_ref>>

\* step()
step ==
    /\ IF CountNeighborsRaises(Grid)
       THEN Returns(0, NoArray, BroadcastError) /\ UNCHANGED <<grid_ref, heap>>
       ELSE Rebind(StepOf(Grid)) /\ ReturnsNone
    /\ UNCHANGED <<rows, cols, snap_ref>>

\* a clear that zeroes row 0 only: self.grid[0].fill(0)
ClearArrayFirstRow(a) ==
    [a EXCEPT !.data = [p \in DOMAIN a.data |-> IF p[1] = 0 THEN 0 ELSE a.data[p]]]

\* self.grid.fill(0)
ClearArray(a) == [a EXCEPT !.data = [p \in DOMAIN a.data |-> 0]]

\* clear()
clear ==
    /\ heap' = [heap EXCEPT ![grid_ref] = ClearArray(@)]
    /\ ReturnsNone
    /\ UNCHANGED <<rows, cols, grid_ref, snap_ref>>

\* get_grid_copy returning self.grid itself
CopyRefAlias == grid_ref

\* the object get_grid_copy returns: self.grid.copy() is a new array
CopyRef == Fresh({grid_ref})

\* get_grid_copy(); the caller lets go of the snapshot it held
get_grid_copy ==
    /\ snap_ref' = CopyRef
    /\ heap' = Collect([heap EXCEPT ![CopyRef] = Grid], {grid_ref, CopyRef})
    /\ ReturnsNone
    /\ UNCHANGED <<rows, cols, grid_ref>>

\* the caller writes snapshot[row, col] = state, as test_get_grid_copy does
write_copy(row, col, state) ==
    /\ snap_ref # NoRef
    /\ Indexable(heap[snap_ref], row, col)
    /\ heap' = [heap EXCEPT ![snap_ref].data[Pos(heap[snap_ref], row, col)] = Int8(state)]
    /\ ReturnsNone
    /\ UNCHANGED <<rows, cols, grid_ref, snap_ref>>

\* load_pattern_from_file(f)
load_pattern_from_file(f) ==
    \E r \in {LoadResult(Engine, f)} :
        /\ rows' = r.rows
        /\ cols' = r.cols
        /\ IF r.rebound THEN Rebind(r.grid)
           ELSE /\ grid_ref' = grid_ref
                /\ heap' = [heap EXCEPT ![grid_ref] = r.grid]
        /\ Returns(0, NoArray, r.exc)
        /\ UNCHANGED snap_ref

\* get_dimensions()
get_dimensions == <<rows, cols>>

---------------------------------------------------------------------------
(* The view: its layout and the mapping of pixels to buttons and cells.    *)

\* Optional values: None is the empty tuple, a string s is <<s>>
None == <<>>
Some(s) == <<s>>

ui_height == 80
button_width == 100
button_height == 40
button_spacing == 10
button_margin == 20
label_area_width == 180
num_buttons == 6

min_width ==
    num_buttons * button_width + (num_buttons - 1) * button_spacing
    + 2 * button_margin + label_area_width

ZeroDivisionError == [NoExc EXCEPT !.type = "ZeroDivisionError"]

\* _calculate_optimal_cell_size on a screen of maxw x maxh usable pixels: the
\* size it returns, or the exception of a division by no rows or no columns
CalculateOptimalCellSize(maxw, maxh, grid_rows, grid_cols, preferred_cell_size) ==
    LET required_width == Max(grid_cols * preferred_cell_size, min_width)
        required_height == grid_rows * preferred_cell_size + ui_height
    IN  IF required_width > maxw \/ required_height > maxh
        THEN IF grid_cols = 0 \/ grid_rows = 0
             THEN [cell_size |-> 0, exc |-> ZeroDivisionError]
             ELSE [cell_size |->
                      Max(Min(maxw \div grid_cols,
                              (maxh - ui_height) \div grid_rows), 3),
                   exc |-> NoExc]
        ELSE [cell_size |-> preferred_cell_size, exc |-> NoExc]

\* the fields the constructor and update_grid_dimensions compute from the
\* grid dimensions and the cell size
Layout(maxw, maxh, grid_rows, grid_cols, cell_size) ==
    LET grid_width == grid_cols * cell_size
        screen_width == Max(grid_width, min_width)
    IN  [grid_rows |-> grid_rows, grid_cols |-> grid_cols,
         cell_size |-> cell_size,
         screen_width |-> screen_width,
         screen_height |-> grid_rows * cell_size + ui_height,
         grid_offset_x |-> (screen_width - grid_width) \div 2,
         button_y |-> grid_rows * cell_size + 15,
         max_screen_width |-> maxw, max_screen_height |-> maxh]

\* GameOfLifeView(grid_rows, grid_cols, cell_size) on that screen
NewView(maxw, maxh, grid_rows, grid_cols, cell_size) ==
    LET size == CalculateOptimalCellSize(maxw, maxh, grid_rows, grid_cols, cell_size)
    IN  [view |-> Layout(maxw, maxh, grid_rows, grid_cols, size.cell_size),
         exc |-> size.exc]

\* an update_grid_dimensions that lays the window out anew and forgets to
\* store the new numbers of rows and columns
UpdateGridDimensionsStale(v, r, c) ==
    LET size == CalculateOptimalCellSize(v.max_screen_width, v.max_screen_height,
                                         r, c, v.cell_size)
    IN  IF size.exc # NoExc
        THEN [view |-> v, exc |-> size.exc]
        ELSE [view |-> [Layout(v.max_screen_width, v.max_screen_height,
                               r, c, size.cell_size)
                           EXCEPT !.grid_rows = v.grid_rows,
                                  !.grid_cols = v.grid_cols],
              exc |-> NoExc]

\* update_grid_dimensions(rows, cols): the view it leaves and what it raised
UpdateGridDimensions(v, r, c) ==
    LET size == CalculateOptimalCellSize(v.max_screen_width, v.max_screen_height,
                                         r, c, v.cell_size)
    IN  IF size.exc # NoExc
        THEN [view |-> [v EXCEPT !.grid_rows = r, !.grid_cols = c], exc |-> size.exc]
        ELSE [view |-> Layout(v.max_screen_width, v.max_screen_height,
                              r, c, size.cell_size),
              exc |-> NoExc]

\* pygame.Rect(x, y, w, h).collidepoint(pos): the right and bottom edges are
\* outside the rectangle
CollidePoint(x, y, w, h, pos) ==
    x <= pos[1] /\ pos[1] < x + w /\ y <= pos[2] /\ pos[2] < y + h

\* the buttons in the order _create_buttons lays them out
ButtonNames == <<"start", "pause", "load", "clear", "speed", "random">>
ButtonX(k) == button_margin + (k - 1) * (button_width + button_spacing)

\* get_clicked_button(mouse_pos)
GetClickedButton(v, pos) ==
    LET hit == {k \in 1 .. num_buttons :
                   CollidePoint(ButtonX(k), v.button_y, button_width, button_height, pos)}
    IN  IF hit = {} THEN None
        ELSE Some(ButtonNames[CHOOSE k \in hit : \A m \in hit : k <= m])

\* get_clicked_cell whose bounds checks accept the pixel row and column just
\* past the grid
GetClickedCellInclusive(v, pos) ==
    LET x == pos[1]
        y == pos[2]
        x_relative == x - v.grid_offset_x
    IN  IF y < 0 \/ y > v.grid_rows * v.cell_size THEN None
        ELSE IF x_relative < 0 \/ x_relative > v.grid_cols * v.cell_size THEN None
        ELSE <<y \div v.cell_size, x_relative \div v.cell_size>>

\* get_clicked_cell(mouse_pos)
GetClickedCell(v, pos) ==
    LET x == pos[1]
        y == pos[2]
        grid_height == v.grid_rows * v.cell_size
        x_relative == x - v.grid_offset_x
        grid_width == v.grid_cols * v.cell_size
    IN  IF y < 0 \/ y >= grid_height THEN None
        ELSE IF x_relative < 0 \/ x_relative >= grid_width THEN None
        ELSE <<y \div v.cell_size, x_relative \div v.cell_size>>

---------------------------------------------------------------------------
(* What is remembered of the last operation.                               *)

Before0 ==
    [rows |-> rows, cols |-> cols, grid |-> Grid, snap |-> Snapshot,
     controller |-> controller]

\* the engine used on its own, as its tests use it: no controller, no view
NoController ==
    [is_running |-> FALSE, generation |-> 0, loaded_filename |-> None,
     target_fps |-> 0]
NoView ==
    [grid_rows |-> 0, grid_cols |-> 0, cell_size |-> 0, screen_width |-> 0,
     screen_height |-> 0, grid_offset_x |-> 0, button_y |-> 0,
     max_screen_width |-> 0, max_screen_height |-> 0]
NoInput == [pos |-> <<0, 0>>, key |-> "", fps |-> 0, path |-> <<>>]
\* a Python value handed to the view: an int, a str or None
PyInt(n) == [type |-> "int", int |-> n, str |-> ""]
PyStr(t) == [type |-> "str", int |-> 0, str |-> t]
PyNone == [type |-> "NoneType", int |-> 0, str |-> ""]
\* the value of an Optional[str] attribute
PyOptional(x) == IF x = None THEN PyNone ELSE PyStr(x[1])

\* nothing was rendered
\* whether a Python value counts as true in a condition
Truthy(v) ==
    IF v.type = "int" THEN v.int # 0
    ELSE IF v.type = "str" THEN v.str # ""
    ELSE FALSE

\* view.render(grid, is_running, generation, fps, filename): the arguments it
\* was called with, the value the Speed button shows after 'Speed: ' and
\* the name the status line shows after 'Pattern: ', if it shows one
ViewRender(grid, is_running, generation, fps, filename) ==
    [rendered |-> TRUE, grid |-> grid, is_running |-> is_running,
     generation |-> generation, fps |-> fps, filename |-> filename,
     speed_shown |-> fps,
     pattern_shown |-> IF Truthy(filename) THEN filename ELSE PyNone]

\* nothing was rendered
NoFrame ==
    [rendered |-> FALSE, grid |-> NoArray, is_running |-> FALSE, generation |-> 0,
     fps |-> PyNone, filename |-> PyNone, speed_shown |-> PyNone,
     pattern_shown |-> PyNone]
\* run() is not being executed
NoLoop ==
    [pc |-> "", running |-> FALSE, events |-> <<>>, frames |-> 0, dropped |-> 0,
     updates_after_quit |-> 0, renders_after_quit |-> 0, cleared |-> FALSE]
Standalone ==
    /\ controller = NoController /\ view = NoView /\ input = NoInput
    /\ clicked = None /\ steps = 0 /\ frame = NoFrame /\ raised = NoExc /\ loop = NoLoop
StaysStandalone ==
    UNCHANGED <<controller, view, input, clicked, steps, frame, raised, loop>>

Full(name, a, f) ==
    op' = name /\ arg' = a /\ file' = f /\ pre' = Before0 /\ StaysStandalone
Slim(name) ==
    op' = name /\ arg' = NoArg /\ file' = NoFile /\ pre' = NoPre /\ StaysStandalone
\* only the snapshot before it / only the engine before it
KeepSnap(name) ==
    op' = name /\ arg' = NoArg /\ file' = NoFile
    /\ pre' = [NoPre EXCEPT !.snap = Snapshot] /\ StaysStandalone
KeepEngine(name) ==
    op' = name /\ arg' = NoArg /\ file' = NoFile
    /\ pre' = [Before0 EXCEPT !.snap = NoArray] /\ StaysStandalone
NoHistory ==
    op = "init" /\ arg = NoArg /\ file = NoFile /\ pre = NoPre /\ Standalone

Cell(row, col, state) == [row |-> row, col |-> col, state |-> state]

\* the states set_cell is documented for
States == {0, 1}

\* indices from below 0 to beyond the last one
Around(n) == -2 .. n + 1
Beside(n) == -1 .. n

\* every array of r x c cells that are 0 or 1
Grids(r, c) ==
    {[shape |-> <<r, c>>, data |-> d] : d \in [Indices(r, c) -> States]}

Live(a) == {p \in DOMAIN a.data : a.data[p] # 0}

\* the files of the operation-sequence machines
Files == {NoFile} \cup {FileOf(t) : t \in Texts(MaxFileLen)}

---------------------------------------------------------------------------
(* The controller's methods: their effect on the controller, the engine    *)
(* and the view.                                                           *)

EngineUntouched ==
    UNCHANGED <<rows, cols, grid_ref, heap, snap_ref, neighbors, ret, exc, steps>>

\* start_simulation()
start_simulation ==
    /\ controller' = [controller EXCEPT !.is_running = TRUE]
    /\ UNCHANGED view
    /\ EngineUntouched
    /\ raised' = NoExc

\* pause_simulation()
pause_simulation ==
    /\ controller' = [controller EXCEPT !.is_running = FALSE]
    /\ UNCHANGED view
    /\ EngineUntouched
    /\ raised' = NoExc

\* a clear_grid that leaves is_running as it was
clear_grid_keeps_running ==
    /\ clear
    /\ steps' = 0
    /\ controller' = [controller EXCEPT !.generation = 0]
    /\ UNCHANGED view
    /\ raised' = NoExc

\* clear_grid()
clear_grid ==
    /\ clear
    /\ steps' = 0
    /\ controller' = [controller EXCEPT !.generation = 0, !.is_running = FALSE]
    /\ UNCHANGED view
    /\ raised' = NoExc

\* os.path.basename of a path given by its components
BaseName(path) == path[Len(path)]

\* the files the dialog can return a path to; a path to no file is missing
Disk ==
    [path \in {<<"patterns", "one.txt">>, <<"patterns", "bad.txt">>,
               <<"patterns", "gone.txt">>} |->
        IF BaseName(path) = "one.txt" THEN FileOf(<<"1">>)
        ELSE IF BaseName(path) = "bad.txt" THEN FileOf(<<"1", "X">>)
        ELSE NoFile]

\* filedialog.askopenfilename: the empty path when the dialog is cancelled
Cancelled == <<>>
DialogResults == {Cancelled} \cup DOMAIN Disk

\* what gets out of 'try: ... except Exception as e: ...' when the body
\* raised e: FileNotFoundError, ValueError and ZeroDivisionError are all
\* kinds of Exception
ExceptException(e) == NoExc

\* what load_pattern does after the dialog returned filename
LoadChosen(filename, paused) ==
    IF filename = Cancelled
    THEN /\ controller' = paused /\ UNCHANGED view /\ EngineUntouched
         /\ raised' = NoExc
    ELSE /\ load_pattern_from_file(Disk[filename])
         /\ \E r \in {LoadResult(Engine, Disk[filename])} :
              IF r.exc # NoExc
              THEN /\ controller' = [paused EXCEPT !.loaded_filename = None]
                   /\ UNCHANGED <<view, steps>>
                   /\ raised' = ExceptException(r.exc)
              ELSE \E u \in {UpdateGridDimensions(view, r.rows, r.cols)} :
                      /\ view' = u.view
                      /\ steps' = 0
                      /\ raised' = ExceptException(u.exc)
                      /\ controller' =
                            IF u.exc # NoExc
                            THEN [paused EXCEPT !.loaded_filename = None]
                            ELSE [paused EXCEPT !.generation = 0,
                                     !.loaded_filename = Some(BaseName(filename))]

\* a load_pattern that does not pause the simulation
load_pattern_no_pause(filename) == LoadChosen(filename, controller)

\* load_pattern(), the dialog returning filename
load_pattern(filename) ==
    LoadChosen(filename, [controller EXCEPT !.is_running = FALSE])

\* an update that steps the engine and forgets to count the generation
update_uncounted ==
    /\ IF controller.is_running
       THEN /\ step
            /\ steps' = IF CountNeighborsRaises(Grid) THEN steps ELSE steps + 1
            /\ UNCHANGED controller
       ELSE UNCHANGED controller /\ EngineUntouched
    /\ raised' = NoExc
    /\ UNCHANGED view

\* an update that steps whether the simulation runs or not
update_always ==
    /\ step
    /\ steps' = IF CountNeighborsRaises(Grid) THEN steps ELSE steps + 1
    /\ controller' = [controller EXCEPT !.generation = @ + 1]
    /\ raised' = IF CountNeighborsRaises(Grid) THEN BroadcastError ELSE NoExc
    /\ UNCHANGED view

\* update()
update ==
    /\ IF controller.is_running
       THEN /\ step
            /\ steps' = IF CountNeighborsRaises(Grid) THEN steps ELSE steps + 1
            /\ controller' = IF CountNeighborsRaises(Grid) THEN controller
                              ELSE [controller EXCEPT !.generation = @ + 1]
            /\ raised' = IF CountNeighborsRaises(Grid) THEN BroadcastError ELSE NoExc
       ELSE UNCHANGED controller /\ EngineUntouched /\ raised' = NoExc
    /\ UNCHANGED view

\* _toggle_cell(coords)
toggle_cell(coords) ==
    /\ IF InBounds(coords[1], coords[2]) /\ ~Indexable(Grid, coords[1], coords[2])
       THEN get_cell(coords[1], coords[2])
       ELSE set_cell(coords[1], coords[2],
                     IF GetCellValue(coords[1], coords[2]) = 0 THEN 1 ELSE 0)
    /\ raised' = exc'
    /\ UNCHANGED <<controller, view, steps>>

\* a set_simulation_speed without its check
set_simulation_speed_unchecked(fps) ==
    /\ controller' = [controller EXCEPT !.target_fps = fps]
    /\ UNCHANGED view
    /\ EngineUntouched
    /\ raised' = NoExc

\* set_simulation_speed(fps)
set_simulation_speed(fps) ==
    /\ controller' = IF fps > 0 THEN [controller EXCEPT !.target_fps = fps]
                     ELSE controller
    /\ UNCHANGED view
    /\ EngineUntouched
    /\ raised' = NoExc

\* render(): the copy of the grid, is_running, generation and loaded_filename,
\* in this order, are the arguments of view.render; its filename parameter is
\* left to its default, None
render ==
    /\ frame' = ViewRender(Grid, controller.is_running, controller.generation,
                           PyOptional(controller.loaded_filename), PyNone)
    /\ UNCHANGED <<controller, view>>
    /\ EngineUntouched
    /\ raised' = NoExc

\* what _handle_mouse_click does with a click that hit none of its four
\* buttons; edit tells whether the cell may be toggled
ClickOnGrid(pos, edit) ==
    \E cell_coords \in {GetClickedCell(view, pos)} :
        IF cell_coords # None /\ edit
        THEN toggle_cell(cell_coords)
        ELSE UNCHANGED <<controller, view>> /\ EngineUntouched /\ raised' = NoExc

\* what _handle_mouse_click does, the dialog of a click on Load returning filename
ClickAt(pos, filename, edit) ==
    \E clicked_button \in {GetClickedButton(view, pos)} :
        IF clicked_button = Some("start") THEN start_simulation
        ELSE IF clicked_button = Some("pause") THEN pause_simulation
        ELSE IF clicked_button = Some("load") THEN load_pattern(filename)
        ELSE IF clicked_button = Some("clear") THEN clear_grid
        ELSE ClickOnGrid(pos, edit)

\* a _handle_mouse_click that toggles cells while the simulation runs
handle_mouse_click_always(pos, filename) == ClickAt(pos, filename, TRUE)

\* _handle_mouse_click(pos)
handle_mouse_click(pos, filename) == ClickAt(pos, filename, ~controller.is_running)

\* a _handle_keyboard_input whose space bar always starts the simulation
handle_keyboard_input_space_starts(key, filename) ==
    IF key = "K_SPACE" THEN start_simulation
    ELSE IF key = "K_c" THEN clear_grid
    ELSE IF key = "K_l" THEN load_pattern(filename)
    ELSE IF key = "K_ESCAPE" THEN pause_simulation
    ELSE UNCHANGED <<controller, view>> /\ EngineUntouched /\ raised' = NoExc

\* _handle_keyboard_input(key), the dialog of the 'L' key returning filename
handle_keyboard_input(key, filename) ==
    IF key = "K_SPACE"
    THEN IF controller.is_running THEN pause_simulation ELSE start_simulation
    ELSE IF key = "K_c" THEN clear_grid
    ELSE IF key = "K_l" THEN load_pattern(filename)
    ELSE IF key = "K_ESCAPE" THEN pause_simulation
    ELSE UNCHANGED <<controller, view>> /\ EngineUntouched /\ raised' = NoExc

---------------------------------------------------------------------------
(* SpecStep: count_neighbors, step and clear applied to any grid.          *)

InitStep ==
    /\ \E r \in 0 .. MaxRows, c \in 0 .. MaxCols :
          /\ r * c <= MaxCells
          /\ \E g \in Grids(r, c) : EngineWith(r, c, g)
    /\ NoHistory

\* one generation after another
Step == op \in {"init", "step"} /\ step /\ Full("step", NoArg, NoFile)

CountNeighbors ==
    op = "init" /\ count_neighbors /\ Full("count_neighbors", NoArg, NoFile)

Clear == op = "init" /\ clear /\ Full("clear", NoArg, NoFile)

NextStep == Step \/ CountNeighbors \/ Clear

SpecStep == InitStep /\ [][NextStep]_vars

---------------------------------------------------------------------------
(* SpecCell: one get_cell or set_cell applied to a grid.                   *)

InitCell ==
    /\ \E r \in 0 .. MaxRows, c \in 0 .. MaxCols :
          \E g \in Grids(r, c) :
              Cardinality(Live(g)) <= MaxLive /\ EngineWith(r, c, g)
    /\ NoHistory

SetCell ==
    /\ op = "init"
    /\ \E row \in Around(rows), col \in Around(cols), state \in States :
          set_cell(row, col, state) /\ Full("set_cell", Cell(row, col, state), NoFile)

GetCell ==
    /\ op = "init"
    /\ \E row \in Around(rows), col \in Around(cols) :
          get_cell(row, col) /\ Full("get_cell", Cell(row, col, 0), NoFile)

NextCell1 == SetCell \/ GetCell

SpecCell == InitCell /\ [][NextCell1]_vars

---------------------------------------------------------------------------
(* SpecLoad: one load_pattern_from_file applied to a grid.                 *)

InitLoad ==
    /\ \E r \in 0 .. SmallRows, c \in 0 .. SmallCols :
          /\ r * c <= MaxLoadCells
          /\ \E g \in Grids(r, c) : EngineWith(r, c, g)
    /\ NoHistory

LoadText ==
    /\ op = "init"
    /\ \E t \in Texts(MaxLen) :
          load_pattern_from_file(FileOf(t)) /\ Full("load", NoArg, FileOf(t))

LoadMissing ==
    /\ op = "init"
    /\ load_pattern_from_file(NoFile) /\ Full("load", NoArg, NoFile)

NextLoad == LoadText \/ LoadMissing

SpecLoad == InitLoad /\ [][NextLoad]_vars

---------------------------------------------------------------------------
(* SpecNew: the constructor applied to any pair of dimensions, negative    *)
(* ones included, and the cells of the engine it gave read back.           *)

InitNew == NoEngine /\ NoHistory

New ==
    /\ op = "init"
    /\ \E r \in -1 .. MaxRows, c \in -1 .. MaxCols :
          /\ init(r, c)
          /\ op' = "new" /\ arg' = Cell(r, c, 0) /\ file' = NoFile /\ pre' = NoPre
          /\ StaysStandalone

NewGetCell ==
    /\ op = "new" /\ exc = NoExc
    /\ \E row \in Around(rows), col \in Around(cols) :
          get_cell(row, col) /\ Full("get_cell", Cell(row, col, 0), NoFile)

NextNew == New \/ NewGetCell

SpecNew == InitNew /\ [][NextNew]_vars

---------------------------------------------------------------------------
(* SpecClick: get_clicked_cell applied to the pixels of a view, those just *)
(* outside its grid included.                                              *)

\* the usable screen under the SDL dummy driver
dummy_screen == 10000

\* small cells, and cells so large that the grid is wider than the buttons
CellSizes == (1 .. MaxCellSize) \cup {min_width \div 2}

\* the pixels on either side of every cell boundary along an axis that
\* starts at pixel from and holds n cells of the given size
Boundaries(from, n, size) ==
    {from + k * size + d : k \in 0 .. n, d \in {-1, 0, 1}}

Pixels(v) ==
    Boundaries(v.grid_offset_x, v.grid_cols, v.cell_size)
    \X Boundaries(0, v.grid_rows, v.cell_size)

InitClick ==
    /\ NoEngine
    /\ op = "init" /\ arg = NoArg /\ file = NoFile /\ pre = NoPre
    /\ controller = NoController /\ input = NoInput /\ clicked = None
    /\ steps = 0 /\ frame = NoFrame /\ raised = NoExc /\ loop = NoLoop
    /\ \E r \in 0 .. MaxRows, c \in 0 .. MaxCols, size \in CellSizes :
          view = NewView(dummy_screen, dummy_screen, r, c, size).view

ClickCell ==
    /\ op = "init"
    /\ \E pos \in Pixels(view) :
          /\ clicked' = GetClickedCell(view, pos)
          /\ input' = [NoInput EXCEPT !.pos = pos]
    /\ op' = "get_clicked_cell"
    /\ UNCHANGED <<rows, cols, grid_ref, heap, snap_ref, neighbors,
                   arg, file, ret, exc, pre, controller, view, steps, frame,
                   raised, loop>>

NextClick == ClickCell

SpecClick == InitClick /\ [][NextClick]_vars

---------------------------------------------------------------------------
(* SpecView: a view constructed for a grid and then resized by             *)
(* update_grid_dimensions, on the dummy screen and on an 800 x 600 one.    *)

\* the usable part of the screen: the SDL dummy driver's, and that of an
\* 800 x 600 display (current_w - 20, current_h - 100)
Screens == {<<dummy_screen, dummy_screen>>, <<800 - 20, 600 - 100>>}

\* numbers of rows and columns: none, one, those of the tests (20, 60) and
\* those on either side of the width of the buttons at cell size 10
ViewSides == {0, 1, 20, 60, 87, 88}

\* preferred cell sizes: the smallest ones, that of the tests and the default
ViewCellSizes == {1, 2, 3, 10, 15}

InitView ==
    /\ NoEngine
    /\ op = "init" /\ file = NoFile /\ pre = NoPre
    /\ controller = NoController /\ input = NoInput /\ clicked = None
    /\ steps = 0 /\ frame = NoFrame /\ raised = NoExc /\ loop = NoLoop
    /\ \E screen \in Screens, r \in ViewSides, c \in ViewSides,
          size \in ViewCellSizes :
          /\ NewView(screen[1], screen[2], r, c, size).exc = NoExc
          /\ view = NewView(screen[1], screen[2], r, c, size).view
          /\ arg = Cell(r, c, size)

ViewUpdate ==
    /\ exc = NoExc
    /\ \E r \in ViewSides, c \in ViewSides :
          /\ view' = UpdateGridDimensions(view, r, c).view
          /\ exc' = UpdateGridDimensions(view, r, c).exc
          /\ arg' = Cell(r, c, view.cell_size)
    /\ op' = "update_grid_dimensions"
    /\ UNCHANGED <<rows, cols, grid_ref, heap, snap_ref, neighbors,
                   file, ret, pre, controller, input, clicked, steps, frame,
                   raised, loop>>

NextView == ViewUpdate

SpecView == InitView /\ [][NextView]_vars

---------------------------------------------------------------------------
(* SpecController: the controller from its construction, under any         *)
(* sequence of calls of its methods and of its mouse and keyboard handlers. *)

default_cell_size == 15
default_fps == 10

\* GameOfLifeController(r, c, cell_size) on a screen
NewControllerSized(r, c, cell_size, screen) ==
    /\ NewView(screen[1], screen[2], r, c, cell_size).exc = NoExc
    /\ Construct(r, c)
    /\ view = NewView(screen[1], screen[2], r, c, cell_size).view
    /\ controller = [is_running |-> FALSE, generation |-> 0,
                     loaded_filename |-> None, target_fps |-> default_fps]

\* GameOfLifeController(r, c) on a screen
NewController(r, c, screen) == NewControllerSized(r, c, default_cell_size, screen)

InitController ==
    /\ \E r \in 0 .. CtlRows, c \in 0 .. CtlCols, screen \in Screens :
          r * c <= MaxCtlCells /\ NewController(r, c, screen)
    /\ op = "init" /\ arg = NoArg /\ file = NoFile /\ pre = NoPre
    /\ input = NoInput /\ clicked = None
    /\ steps = 0 /\ frame = NoFrame /\ raised = NoExc /\ loop = NoLoop

\* a pixel in every cell, the pixels next to the grid and the centres of
\* the buttons
ClickPositions(v) ==
    {<<v.grid_offset_x + (p[2] + 1) * v.cell_size - 1, (p[1] + 1) * v.cell_size - 1>> :
        p \in Indices(v.grid_rows, v.grid_cols)}
    \cup {<<v.grid_offset_x - 1, 0>>,
          <<v.grid_offset_x + v.grid_cols * v.cell_size, 0>>,
          <<v.grid_offset_x, v.grid_rows * v.cell_size>>}
    \cup {<<ButtonX(k) + button_width \div 2, v.button_y + button_height \div 2>> :
            k \in 1 .. num_buttons}

\* the name of the button at pos, or the empty string
ButtonAt(v, pos) ==
    LET clicked_button == GetClickedButton(v, pos)
    IN  IF clicked_button = None THEN "" ELSE clicked_button[1]

Keys == {"K_SPACE", "K_c", "K_l", "K_ESCAPE", "K_a"}
Speeds == -1 .. MaxSpeed

\* what is remembered of a call: its name and arguments, and for the calls
\* whose repetition is of interest the grid and the controller before it
Called(name, in, a, before) ==
    /\ op' = name /\ input' = in /\ arg' = a /\ file' = NoFile /\ pre' = before
    /\ frame' = NoFrame
    /\ UNCHANGED loop
\* no click is being handled
NoClick == clicked' = None
Plain(name) == Called(name, NoInput, NoArg, NoPre) /\ NoClick

\* what is remembered of the state before a call that clears the grid
BeforeClear == [NoPre EXCEPT !.grid = Grid, !.controller = controller]

\* what is remembered of the state before a call of load_pattern
BeforeLoad ==
    [NoPre EXCEPT !.rows = rows, !.cols = cols, !.grid = Grid,
                  !.controller = controller]

CtlStart == start_simulation /\ Plain("start_simulation")

CtlPause == pause_simulation /\ Plain("pause_simulation")

CtlClear ==
    /\ clear_grid
    /\ Called("clear_grid", NoInput, NoArg, BeforeClear)
    /\ NoClick

CtlLoad ==
    \E filename \in DialogResults :
        /\ load_pattern(filename)
        /\ Called("load_pattern", [NoInput EXCEPT !.path = filename], NoArg,
                  BeforeLoad)
        /\ NoClick

CtlUpdate ==
    /\ controller.generation < MaxGeneration
    /\ update
    /\ Called("update", NoInput, NoArg, [NoPre EXCEPT !.grid = Grid])
    /\ NoClick

CtlToggle ==
    \E coords \in Indices(rows, cols) :
        /\ toggle_cell(coords)
        /\ Called("toggle_cell", NoInput, Cell(coords[1], coords[2], 0),
                  [NoPre EXCEPT !.grid = Grid])
        /\ NoClick

CtlSpeed ==
    \E fps \in Speeds :
        /\ set_simulation_speed(fps)
        /\ Called("set_simulation_speed", [NoInput EXCEPT !.fps = fps], NoArg, NoPre)
        /\ NoClick

CtlRender ==
    /\ render
    /\ op' = "render" /\ input' = NoInput /\ arg' = NoArg /\ file' = NoFile
    /\ pre' = NoPre
    /\ NoClick
    /\ UNCHANGED loop

CtlClick ==
    \E pos \in ClickPositions(view) :
        \E button \in {ButtonAt(view, pos)} :
            \E filename \in IF button = "load" THEN DialogResults ELSE {Cancelled} :
                /\ handle_mouse_click(pos, filename)
                /\ Called("handle_mouse_click",
                          [NoInput EXCEPT !.key = button, !.path = filename], NoArg,
                          IF button = "clear" THEN BeforeClear
                          ELSE IF button = "load" THEN BeforeLoad
                          ELSE NoPre)
                /\ clicked' = GetClickedCell(view, pos)

CtlKey ==
    \E key \in Keys :
        \E filename \in IF key = "K_l" THEN DialogResults ELSE {Cancelled} :
            /\ handle_keyboard_input(key, filename)
            /\ Called("handle_keyboard_input",
                      [NoInput EXCEPT !.key = key, !.path = filename], NoArg,
                      IF key = "K_SPACE"
                      THEN [NoPre EXCEPT !.controller.is_running = controller.is_running]
                      ELSE IF key = "K_c" THEN BeforeClear
                      ELSE IF key = "K_l" THEN BeforeLoad
                      ELSE NoPre)
            /\ NoClick

NextController ==
    \/ CtlStart
    \/ CtlPause
    \/ CtlClear
    \/ CtlLoad
    \/ CtlUpdate
    \/ CtlToggle
    \/ CtlSpeed
    \/ CtlRender
    \/ CtlClick
    \/ CtlKey

SpecController == InitController /\ [][NextController]_vars

---------------------------------------------------------------------------
(* SpecFixture: the controller of the controller's tests, of 20 x 20 cells *)
(* of size 10, started or not and then clicked once.                       *)

fixture_rows == 20
fixture_cols == 20
fixture_cell_size == 10

\* the pixels clicked: the centre of every tenth-pixel column of the window,
\* in the row of cell 5 and in the row of the buttons
FixturePixels ==
    {<<5 + 10 * k, y>> : k \in 0 .. (min_width \div 10 - 1),
                        y \in {55, fixture_rows * fixture_cell_size + 35}}

InitFixture ==
    /\ \E screen \in Screens :
          NewControllerSized(fixture_rows, fixture_cols, fixture_cell_size, screen)
    /\ op = "init" /\ arg = NoArg /\ file = NoFile /\ pre = NoPre
    /\ input = NoInput /\ clicked = None
    /\ steps = 0 /\ frame = NoFrame /\ raised = NoExc /\ loop = NoLoop

\* self.controller.is_running = True, as the tests set it
FixtureStart ==
    /\ op = "init"
    /\ start_simulation
    /\ Plain("start_simulation")

FixtureClick ==
    /\ op \in {"init", "start_simulation"}
    /\ \E pos \in FixturePixels :
          /\ handle_mouse_click(pos, Cancelled)
          /\ Called("handle_mouse_click", [NoInput EXCEPT !.pos = pos], NoArg,
                    [NoPre EXCEPT !.grid = Grid])
          /\ clicked' = GetClickedCell(view, pos)

NextFixture == FixtureStart \/ FixtureClick

SpecFixture == InitFixture /\ [][NextFixture]_vars

---------------------------------------------------------------------------
(* SpecRun: run(), the main loop of the controller, one action for each    *)
(* event handle_events takes from the queue and for each call of the loop  *)
(* body.                                                                   *)

\* iterations of the main loop, and events one pygame.event.get() returns
MaxFrames == 2
MaxEvents == 2

\* the events of the queue: the window is closed, a key is pressed, the
\* left button is pressed on the top left cell
Events == {"QUIT", "K_SPACE", "K_c", "CLICK"}

RECURSIVE EventLists(_)
EventLists(n) ==
    IF n = 0 THEN {<<>>}
    ELSE EventLists(n - 1)
         \cup {Append(q, e) : q \in {l \in EventLists(n - 1) : Len(l) = n - 1},
                              e \in Events}

\* the body of `while running` quits at once when handle_events returned False
AfterBreak(pc, running) ==
    CASE pc = "while" -> IF running THEN "for" ELSE "done"
      [] pc = "for" -> IF running THEN "update" ELSE "while"
      [] pc = "update" -> "render"
      [] pc = "render" -> "while"

\* where run() goes on from pc: the test of `while running`, handle_events
\* and its for loop, update, render and tick, cleanup after the loop
After(pc, running) ==
    CASE pc = "while" -> IF running THEN "for" ELSE "done"
      [] pc = "for" -> "update"
      [] pc = "update" -> "render"
      [] pc = "render" -> "while"

InitRun ==
    /\ \E r \in 0 .. MaxRows, c \in 0 .. MaxCols, screen \in Screens :
          NewController(r, c, screen)
    /\ op = "init" /\ arg = NoArg /\ file = NoFile /\ pre = NoPre
    /\ input = NoInput /\ clicked = None
    /\ steps = 0 /\ frame = NoFrame /\ raised = NoExc
    /\ loop = [NoLoop EXCEPT !.pc = "while", !.running = TRUE]

\* an exception left run(): neither the rest of the loop nor the cleanup runs
Aborted == [loop EXCEPT !.pc = "raised", !.events = <<>>]

\* what is remembered of a step of run()
Ran(name, key, before) ==
    /\ op' = name /\ input' = [NoInput EXCEPT !.key = key] /\ arg' = NoArg
    /\ file' = NoFile /\ pre' = before /\ clicked' = None

\* the pixel in the middle of the top left cell
TopLeft(v) == <<v.grid_offset_x + v.cell_size \div 2, v.cell_size \div 2>>

\* while running: running = self.handle_events(), which begins with
\* pygame.event.get()
RunPoll ==
    /\ loop.pc = "while" /\ After("while", loop.running) = "for"
    /\ loop.frames < MaxFrames
    /\ \E queue \in EventLists(MaxEvents) :
          loop' = [loop EXCEPT !.pc = "for", !.events = queue,
                               !.frames = loop.frames + 1]
    /\ Ran("get", "", NoPre)
    /\ frame' = NoFrame /\ raised' = NoExc
    /\ UNCHANGED <<controller, view>>
    /\ EngineUntouched

\* one pass of the for loop of handle_events
RunEvent ==
    /\ loop.pc = "for" /\ loop.events # <<>>
    /\ \E event \in {Head(loop.events)} :
          /\ Ran("event", event, NoPre)
          /\ frame' = NoFrame
          /\ IF event = "QUIT"
             THEN /\ loop' = [loop EXCEPT !.pc = After("for", FALSE),
                                          !.running = FALSE, !.events = <<>>,
                                          !.dropped = Len(Tail(loop.events))]
                  /\ raised' = NoExc
                  /\ UNCHANGED <<controller, view>>
                  /\ EngineUntouched
             ELSE /\ IF event = "CLICK"
                     THEN handle_mouse_click(TopLeft(view), Cancelled)
                     ELSE handle_keyboard_input(event, Cancelled)
                  /\ loop' = IF raised' = NoExc
                             THEN [loop EXCEPT !.events = Tail(loop.events),
                                               !.cleared = @ \/ (event = "K_c"
                                                                 /\ Live(Grid) # {})]
                             ELSE Aborted

\* the for loop of handle_events is through: return True
RunHandled ==
    /\ loop.pc = "for" /\ loop.events = <<>>
    /\ loop' = [loop EXCEPT !.pc = After("for", TRUE), !.running = TRUE]
    /\ Ran("handled", "", NoPre)
    /\ frame' = NoFrame /\ raised' = NoExc
    /\ UNCHANGED <<controller, view>>
    /\ EngineUntouched

RunUpdate ==
    /\ loop.pc = "update"
    /\ update
    /\ loop' = IF raised' = NoExc
               THEN [loop EXCEPT !.pc = After("update", loop.running),
                                 !.updates_after_quit =
                                     IF loop.running THEN 0 ELSE @ + 1]
               ELSE Aborted
    /\ Ran("update", "", [NoPre EXCEPT !.grid = Grid, !.controller = controller])
    /\ frame' = NoFrame

\* self.render() and self.view.tick(self.target_fps)
RunRender ==
    /\ loop.pc = "render"
    /\ render
    /\ loop' = [loop EXCEPT !.pc = After("render", loop.running),
                            !.renders_after_quit =
                                IF loop.running THEN 0 ELSE @ + 1]
    /\ Ran("render", "", pre)

\* running is False: self.view.cleanup()
RunCleanup ==
    /\ loop.pc = "while" /\ After("while", loop.running) = "done"
    /\ loop' = [loop EXCEPT !.pc = "done"]
    /\ Ran("cleanup", "", NoPre)
    /\ frame' = NoFrame /\ raised' = NoExc
    /\ UNCHANGED <<controller, view>>
    /\ EngineUntouched

NextRun ==
    \/ RunPoll
    \/ RunEvent
    \/ RunHandled
    \/ RunUpdate
    \/ RunRender
    \/ RunCleanup

SpecRun == InitRun /\ [][NextRun]_vars

---------------------------------------------------------------------------
(* SpecValues: set_cell given any value an int8 cell holds, and step, in   *)
(* any order from the construction of the engine.                          *)

\* grids the engine is constructed with, and their cells
ValueRows == 2
ValueCols == 2
MaxValueCells == 4

\* the states set_cell is given: 0, 1, and values beside them up to the ends
\* of the range of np.int8
AnyStates == {-128, -1, 0, 1, 2, 3, 127}

InitValues ==
    /\ \E r \in 0 .. ValueRows, c \in 0 .. ValueCols :
          r * c <= MaxValueCells /\ Construct(r, c)
    /\ NoHistory

ValueSetCell ==
    /\ \E p \in Indices(rows, cols), state \in AnyStates :
          /\ set_cell(p[1], p[2], state)
          /\ op' = "set_cell" /\ arg' = Cell(p[1], p[2], state)
    /\ file' = NoFile /\ pre' = NoPre /\ StaysStandalone

ValueStep ==
    /\ step
    /\ op' = "step" /\ arg' = NoArg /\ file' = NoFile
    /\ pre' = [NoPre EXCEPT !.grid = Grid]
    /\ StaysStandalone

NextValues == ValueSetCell \/ ValueStep

SpecValues == InitValues /\ [][NextValues]_vars

---------------------------------------------------------------------------
(* Spec: the engine from its construction, under any sequence of its       *)
(* operations.  As in the controller's render, the caller lets go of a     *)
(* snapshot before it calls the engine again.                              *)

Init ==
    /\ \E r \in 0 .. SeqRows, c \in 0 .. SeqCols : Construct(r, c)
    /\ NoHistory

\* the caller lets go of its snapshot
drop_copy ==
    /\ snap_ref # NoRef
    /\ snap_ref' = NoRef
    /\ heap' = Collect(heap, {grid_ref})
    /\ ReturnsNone
    /\ UNCHANGED <<rows, cols, grid_ref>>

DoSetCell ==
    /\ snap_ref = NoRef
    /\ \E row \in Beside(rows), col \in Beside(cols), state \in States :
          set_cell(row, col, state) /\ Slim("set_cell")

DoGetCell ==
    /\ snap_ref = NoRef
    /\ \E row \in Beside(rows), col \in Beside(cols) :
          get_cell(row, col) /\ Slim("get_cell")

DoClear == snap_ref = NoRef /\ clear /\ Slim("clear")

DoStep == snap_ref = NoRef /\ step /\ Slim("step")

DoCountNeighbors == snap_ref = NoRef /\ count_neighbors /\ Slim("count_neighbors")

DoGetGridCopy == snap_ref = NoRef /\ get_grid_copy /\ Slim("get_grid_copy")

DoDropCopy == drop_copy /\ Slim("drop_copy")

DoLoad ==
    /\ snap_ref = NoRef
    /\ \E f \in Files : load_pattern_from_file(f) /\ Slim("load")

Next ==
    \/ DoSetCell
    \/ DoGetCell
    \/ DoClear
    \/ DoStep
    \/ DoCountNeighbors
    \/ DoGetGridCopy
    \/ DoDropCopy
    \/ DoLoad

Spec == Init /\ [][Next]_vars

---------------------------------------------------------------------------
(* SpecSnap: the caller keeps the snapshot across the engine's operations  *)
(* and writes to it.                                                       *)

InitSnap ==
    /\ \E r \in 0 .. SmallRows, c \in 0 .. SmallCols : Construct(r, c)
    /\ NoHistory

SnapSetCell ==
    \E row \in Beside(rows), col \in Beside(cols), state \in States :
        set_cell(row, col, state) /\ KeepSnap("set_cell")

SnapClear == clear /\ KeepSnap("clear")

SnapStep == step /\ KeepSnap("step")

SnapLoad == \E f \in Files : load_pattern_from_file(f) /\ KeepSnap("load")

SnapGetGridCopy == get_grid_copy /\ KeepSnap("get_grid_copy")

SnapWriteCopy ==
    \E p \in DOMAIN Snapshot.data, state \in States :
        write_copy(p[1], p[2], state) /\ KeepEngine("write_copy")

NextSnap ==
    \/ SnapSetCell
    \/ SnapClear
    \/ SnapStep
    \/ SnapLoad
    \/ SnapGetGridCopy
    \/ SnapWriteCopy

SpecSnap == InitSnap /\ [][NextSnap]_vars

---------------------------------------------------------------------------
(* The claims.                                                             *)

\* the eight neighbour offsets
Offsets == ({-1, 0, 1} \X {-1, 0, 1}) \ {<<0, 0>>}

\* the neighbour positions of p that lie inside the array a
NeighbourCells(a, p) ==
    {<<p[1] + d[1], p[2] + d[2]>> : d \in Offsets} \cap Indices(NRows(a), NCols(a))

\* the number of live cells among them
LiveNeighbours(a, p) == Cardinality({q \in NeighbourCells(a, p) : a.data[q] = 1})

WasInBounds(row, col) == 0 <= row /\ row < pre.rows /\ 0 <= col /\ col < pre.cols

Corners(a) ==
    {p \in DOMAIN a.data :
        p[1] \in {0, NRows(a) - 1} /\ p[2] \in {0, NCols(a) - 1}}

\* C1: after one step a cell is 1 exactly when it was 1 with 2 or 3 live
\* neighbours or was 0 with exactly 3, the neighbours being counted in the grid
\* as it was before the step.
C1_StepRule ==
    op = "step" =>
        /\ Grid.shape = pre.grid.shape
        /\ DOMAIN Grid.data = DOMAIN pre.grid.data
        /\ \A p \in DOMAIN pre.grid.data :
              LET was == pre.grid.data[p]
                  n == LiveNeighbours(pre.grid, p)
              IN  Grid.data[p] =
                      IF (was = 1 /\ n \in {2, 3}) \/ (was = 0 /\ n = 3)
                      THEN 1 ELSE 0

\* a step in which one cell survived, one was born and one died of overcrowding
C1_Witness ==
    /\ op = "step"
    /\ \E p, q, x \in DOMAIN pre.grid.data :
          /\ pre.grid.data[p] = 1 /\ Grid.data[p] = 1
          /\ pre.grid.data[q] = 0 /\ Grid.data[q] = 1
          /\ pre.grid.data[x] = 1 /\ LiveNeighbours(pre.grid, x) >= 4
          /\ Grid.data[x] = 0

\* the general part of C2: every count is the number of live cells among the
\* in-bounds neighbour positions
CountsAreLiveNeighbours ==
    /\ neighbors.shape = Grid.shape
    /\ DOMAIN neighbors.data = DOMAIN Grid.data
    /\ \A p \in DOMAIN Grid.data : neighbors.data[p] = LiveNeighbours(Grid, p)

\* a single live cell: 0 at its own position, 1 at each in-bounds neighbour,
\* 0 everywhere else
SingleCellCounts ==
    \A q \in Live(Grid) :
        Live(Grid) = {q} =>
            \A p \in DOMAIN Grid.data :
                neighbors.data[p] = IF p \in NeighbourCells(Grid, q) THEN 1 ELSE 0

\* C2 as stated: a single live cell in a corner has 3 cells counting 1,
\* whatever the grid
C2_Original ==
    op = "count_neighbors" =>
        /\ CountsAreLiveNeighbours
        /\ SingleCellCounts
        /\ \A q \in Corners(Grid) :
              Live(Grid) = {q} =>
                  Cardinality({p \in DOMAIN Grid.data : neighbors.data[p] = 1}) = 3

\* C2: count_neighbors()[r, c] is the number of live cells among the in-bounds
\* neighbour positions of (r, c), without wraparound; a single live cell has 0
\* at its own position, 1 at each in-bounds neighbour and 0 elsewhere, and in a
\* corner of a grid of at least 2 rows and 2 columns those neighbours are 3.
C2_NeighbourCount ==
    op = "count_neighbors" =>
        /\ CountsAreLiveNeighbours
        /\ SingleCellCounts
        /\ \A q \in Corners(Grid) :
              (Live(Grid) = {q} /\ rows >= 2 /\ cols >= 2) =>
                  Cardinality({p \in DOMAIN Grid.data : neighbors.data[p] = 1}) = 3

\* the counts of a single live cell in a corner of a 3 x 3 grid
C2_Witness ==
    /\ op = "count_neighbors"
    /\ rows = 3 /\ cols = 3
    /\ \E q \in Corners(Grid) : Live(Grid) = {q}
    /\ Cardinality({p \in DOMAIN Grid.data : neighbors.data[p] = 1}) = 3

\* C3: in every state reachable from construction every cell of the grid is 0
\* or 1 and the shape of the grid is (rows, cols), as get_dimensions reports.
C3_GridInvariant ==
    /\ \A p \in DOMAIN Grid.data : Grid.data[p] \in {0, 1}
    /\ Grid.shape = <<rows, cols>>
    /\ DOMAIN Grid.data = Indices(rows, cols)
    /\ Grid.shape = get_dimensions

\* a load replaced the grid by a live pattern
C3_Witness == op = "load" /\ exc = NoExc /\ Live(Grid) # {}

\* C4: a load that fails leaves rows, cols and every cell as they were.
C4_FailedLoadAtomic ==
    (op = "load" /\ exc # NoExc) =>
        rows = pre.rows /\ cols = pre.cols /\ Grid = pre.grid

\* a load that failed on a character after it had parsed a '1', on a grid that
\* held live cells
C4_Witness ==
    /\ op = "load"
    /\ exc.kind = "Invalid character"
    /\ Before(<<0, 0>>, <<exc.i, exc.j>>)
    /\ file.content[1] = "1"
    /\ Live(Grid) # {}

\* t is the text of n lines of n characters '0' or '1' joined by newlines
IsPattern(t, n) ==
    /\ n >= 1
    /\ Len(t) = n * n + (n - 1)
    /\ \A k \in 1 .. Len(t) :
          IF k % (n + 1) = 0 THEN t[k] = "\n" ELSE t[k] \in {"0", "1"}

\* character c of line r of such a text
PatternChar(t, n, r, c) == t[r * (n + 1) + c + 1]

\* C5: loading a valid pattern of n lines of n characters makes rows = cols = n
\* and get_cell(r, c) the digit at character c of line r.
C5_LoadRoundTrip ==
    \A n \in 1 .. MaxLen :
        (op = "load" /\ file.exists /\ IsPattern(file.content, n)) =>
            /\ exc = NoExc
            /\ get_dimensions = <<n, n>>
            /\ \A r \in 0 .. n - 1, c \in 0 .. n - 1 :
                  GetCellValue(r, c) =
                      IF PatternChar(file.content, n, r, c) = "1" THEN 1 ELSE 0

\* a 2 x 2 pattern that is not its own transpose, loaded over a grid of
\* another size
C5_Witness ==
    /\ op = "load"
    /\ file.exists
    /\ IsPattern(file.content, 2)
    /\ GetCellValue(0, 1) # GetCellValue(1, 0)
    /\ pre.rows # 2

\* the text with the whitespace at its end removed, which the format allows
RTrimmed(t) ==
    LET keep == {k \in 0 .. Len(t) : \A i \in k + 1 .. Len(t) : IsSpace(t[i])}
    IN  SubSeq(t, 1, CHOOSE k \in keep : \A i \in keep : k <= i)

\* a text that is not n lines of n characters '0' or '1'
Malformed(t) == ~ \E n \in 1 .. Len(t) : IsPattern(RTrimmed(t), n)

\* C6: every malformed pattern is rejected with a ValueError.
C6_MalformedRejected ==
    (op = "load" /\ file.exists /\ Malformed(file.content)) =>
        exc.type = "ValueError"

\* C7: get_cell outside [0, rows) x [0, cols) returns 0 and raises nothing.
C7_GetOutOfBounds ==
    (op = "get_cell" /\ ~WasInBounds(arg.row, arg.col)) =>
        ret = 0 /\ exc = NoExc

\* get_cell(-1, c) where the last row holds a live cell in column c
C7_Witness ==
    /\ op = "get_cell"
    /\ arg.row = -1
    /\ InBounds(rows - 1, arg.col)
    /\ Grid.data[<<rows - 1, arg.col>>] = 1

\* C8: set_cell outside [0, rows) x [0, cols) raises nothing and leaves every
\* cell and the dimensions unchanged.
C8_SetOutOfBounds ==
    (op = "set_cell" /\ ~WasInBounds(arg.row, arg.col)) =>
        /\ exc = NoExc
        /\ Grid = pre.grid
        /\ rows = pre.rows /\ cols = pre.cols

\* set_cell(-1, c, 1) where the cell of the last row in column c is dead
C8_Witness ==
    /\ op = "set_cell"
    /\ arg.row = -1 /\ arg.state = 1
    /\ InBounds(rows - 1, arg.col)
    /\ pre.grid.data[<<rows - 1, arg.col>>] = 0

\* C9: a set_cell, clear, step or load of the engine leaves every value of the
\* snapshot the caller holds unchanged, and a write to the snapshot leaves the
\* engine's grid and dimensions unchanged.
C9_SnapshotIndependent ==
    /\ (op \in {"set_cell", "clear", "step", "load"}) => Snapshot = pre.snap
    /\ (op = "write_copy") =>
          Grid = pre.grid /\ rows = pre.rows /\ cols = pre.cols

\* a set_cell after which the snapshot held differs from the grid
C9_Witness ==
    /\ op = "set_cell"
    /\ snap_ref # NoRef
    /\ Snapshot # Grid
    /\ Snapshot.shape = Grid.shape

\* C10: after set_cell(row, col, state) in bounds, get_cell(row, col) returns
\* state, every other cell is unchanged and so are the dimensions.
C10_SetThenGet ==
    (op = "set_cell" /\ WasInBounds(arg.row, arg.col)) =>
        /\ exc = NoExc
        /\ GetCellValue(arg.row, arg.col) = arg.state
        /\ Grid.shape = pre.grid.shape
        /\ DOMAIN Grid.data = DOMAIN pre.grid.data
        /\ \A p \in DOMAIN pre.grid.data :
              p # <<arg.row, arg.col>> => Grid.data[p] = pre.grid.data[p]
        /\ rows = pre.rows /\ cols = pre.cols

\* set_cell changed the last cell of the last row of a 3 x 2 grid
C10_Witness ==
    /\ op = "set_cell"
    /\ rows = 3 /\ cols = 2
    /\ arg.row = rows - 1 /\ arg.col = cols - 1
    /\ pre.grid.data[<<arg.row, arg.col>>] # arg.state

\* C11: clear() leaves every cell dead whatever the grid held, in the same
\* array, and leaves rows and cols as they were.
C11_ClearAllDead ==
    op = "clear" =>
        /\ \A p \in DOMAIN Grid.data : Grid.data[p] = 0
        /\ Grid.shape = pre.grid.shape
        /\ rows = pre.rows /\ cols = pre.cols
        /\ exc = NoExc

\* a clear of a grid that held live cells in its last row
C11_Witness ==
    /\ op = "clear"
    /\ rows = MaxRows /\ cols = MaxCols
    /\ \A c \in 0 .. cols - 1 : pre.grid.data[<<rows - 1, c>>] = 1
    /\ Live(Grid) = {}

\* C12: on a grid of 0s and 1s every count count_neighbors returns lies in
\* 0 .. 8, so the int8 sums neither wrap nor go negative.
C12_CountRange ==
    (op = "count_neighbors" /\ exc = NoExc) =>
        \A p \in DOMAIN neighbors.data :
            0 <= neighbors.data[p] /\ neighbors.data[p] <= 8

\* a cell whose eight neighbours are all alive
C12_Witness ==
    /\ op = "count_neighbors"
    /\ \E p \in DOMAIN neighbors.data : neighbors.data[p] = 8

\* three cells in a row around (r, c), and three in a column
HorizontalBlinker(r, c) == {<<r, c - 1>>, <<r, c>>, <<r, c + 1>>}
VerticalBlinker(r, c) == {<<r - 1, c>>, <<r, c>>, <<r + 1, c>>}

\* C13: a step takes a grid whose only live cells are a horizontal blinker
\* (rows r-1 and r+1 inside the grid) to the vertical blinker with the same
\* centre, and the step after that gives back the original grid; likewise a
\* step takes the vertical blinker back to the horizontal one, so the grid
\* has period 2.
C13_BlinkerPeriod2 ==
    op = "step" =>
        \A r \in 1 .. pre.rows - 2, c \in 1 .. pre.cols - 2 :
            /\ Live(pre.grid) = HorizontalBlinker(r, c) =>
                  /\ Live(Grid) = VerticalBlinker(r, c)
                  /\ StepOf(Grid) = pre.grid
            /\ Live(pre.grid) = VerticalBlinker(r, c) =>
                  /\ Live(Grid) = HorizontalBlinker(r, c)
                  /\ StepOf(Grid) = pre.grid

\* the step that turned a horizontal blinker into the vertical one
C13_Witness ==
    /\ op = "step"
    /\ \E r \in 1 .. rows - 2, c \in 1 .. cols - 2 :
          /\ Live(pre.grid) = HorizontalBlinker(r, c)
          /\ Live(Grid) = VerticalBlinker(r, c)

\* a 2 x 2 block of cells with (r, c) as its top-left corner
Block(r, c) == {<<r, c>>, <<r, c + 1>>, <<r + 1, c>>, <<r + 1, c + 1>>}

\* C14: a grid whose only live cells form a 2 x 2 block is a fixed point of
\* step, wherever the block lies in the grid.
C14_BlockStill ==
    op = "step" =>
        \A r \in 0 .. pre.rows - 2, c \in 0 .. pre.cols - 2 :
            Live(pre.grid) = Block(r, c) => Grid = pre.grid

\* a step of a block that touches the bottom-right corner of the grid
C14_Witness ==
    /\ op = "step"
    /\ rows = MaxRows /\ cols = MaxCols
    /\ Live(pre.grid) = Block(rows - 2, cols - 2)
    /\ Live(Grid) = Block(rows - 2, cols - 2)

\* C15: step and count_neighbors raise nothing on a grid of any dimensions,
\* 0 x 0, 0 x k, k x 0, 1 x 1, 1 x k and k x 1 included; the result has the
\* dimensions of the grid, so a grid without cells gives a result without
\* cells; in a 1 x 1 grid the count is 0 and the cell is dead after a step.
C15_DegenerateGrids ==
    op \in {"step", "count_neighbors"} =>
        LET result == IF op = "step" THEN Grid ELSE neighbors
        IN  /\ exc = NoExc
            /\ result.shape = <<pre.rows, pre.cols>>
            /\ DOMAIN result.data = Indices(pre.rows, pre.cols)
            /\ (pre.rows = 1 /\ pre.cols = 1) => result.data[<<0, 0>>] = 0

\* the step of a 1 x 1 grid whose cell was alive
C15_Witness ==
    /\ op = "step"
    /\ pre.rows = 1 /\ pre.cols = 1
    /\ pre.grid.data[<<0, 0>>] = 1
    /\ Grid.data[<<0, 0>>] = 0
    /\ exc = NoExc

\* C16: a load of empty input is rejected by the empty-input check, with the
\* 'Empty file' failure, before any line length or character is validated.
C16_EmptyFileFirst ==
    (op = "load" /\ file.exists /\ file.content = <<>>) => exc = EmptyFileError

\* the lines the load splits the content of the file into
LinesOf(f) == Split(Strip(f.content))

\* the positions of the characters of these lines, 0-based
CharsOf(lines) ==
    {p \in (0 .. Len(lines) - 1) \X (0 .. MaxLen) : p[2] < Len(lines[p[1] + 1])}

InvalidChars(lines) ==
    {p \in CharsOf(lines) : lines[p[1] + 1][p[2] + 1] \notin {"0", "1"}}

WrongLengthLines(lines) ==
    {k \in 1 .. Len(lines) : Len(lines[k]) # Len(lines)}

C19_MissingFile ==
    op = "load" =>
        /\ ~file.exists =>
              /\ exc.type = "FileNotFoundError"
              /\ rows = pre.rows /\ cols = pre.cols /\ Grid = pre.grid
        /\ file.exists => exc.type \in {"none", "ValueError"}

\* a load from a missing path into an engine that held a live cell
C19_Witness ==
    /\ op = "load" /\ ~file.exists
    /\ exc.type = "FileNotFoundError"
    /\ Live(Grid) # {}

\* the content t without its last k characters, which are all spaces or newlines
EndsInSpaces(t, k) == \A m \in Len(t) - k + 1 .. Len(t) : IsSpace(t[m])
ButLast(t, k) == SubSeq(t, 1, Len(t) - k)

\* C20: spaces and newlines at the end of the file do not affect a load: the
\* load of content C followed by any number of them has the outcome of the
\* load of C, the same grid and dimensions or the same failure.
C20_TrailingWhitespace ==
    (op = "load" /\ file.exists) =>
        \A k \in 1 .. Len(file.content) :
            EndsInSpaces(file.content, k) =>
                LET r == LoadResult(pre, FileOf(ButLast(file.content, k)))
                IN  /\ r.exc = exc
                    /\ r.rows = rows /\ r.cols = cols /\ r.grid = Grid

\* a load that succeeded on content ending in two spaces or newlines
C20_Witness ==
    /\ op = "load" /\ file.exists
    /\ Len(file.content) > 2 /\ EndsInSpaces(file.content, 2)
    /\ exc = NoExc
    /\ Live(Grid) # {}

\* C21: rows, cols and the shape of the grid change only in a load that
\* succeeds: step, clear, set_cell, get_cell, count_neighbors, get_grid_copy
\* and a load that fails leave them as they were.
C21_DimensionsFrame ==
    [][\/ op' = "load" /\ exc' = NoExc
       \/ rows' = rows /\ cols' = cols /\ Grid'.shape = Grid.shape]_vars

\* a failed load that left an engine with its 2 x 1 grid
C21_Witness ==
    /\ op = "load" /\ exc.type = "ValueError"
    /\ rows = SeqRows /\ cols = 1
    /\ Grid.shape = <<SeqRows, 1>>

\* C23 as stated: a step does not modify the grid it is applied to; the live
\* grid changes only if the caller replaces it with the value returned.
C23_Original == op = "step" => Grid = pre.grid

\* C23: step returns nothing and replaces the engine's grid itself: after it
\* the grid differs from the grid before exactly where the rule of the game
\* changes a cell, and the dimensions are those before.
C23_StepReplacesGrid ==
    (op = "step" /\ exc = NoExc) =>
        /\ ret = 0 /\ neighbors = NoArray
        /\ Grid.shape = pre.grid.shape
        /\ \A p \in DOMAIN pre.grid.data :
              LET n == LiveNeighbours(pre.grid, p)
                  changes == IF pre.grid.data[p] = 1 THEN n \notin {2, 3} ELSE n = 3
              IN  (Grid.data[p] # pre.grid.data[p]) <=> changes

\* a step that changed the engine's grid
C23_Witness ==
    /\ op = "step"
    /\ Grid # pre.grid
    /\ Live(Grid) # {} /\ Live(pre.grid) # {}

\* C22: a construction with rows >= 0 and cols >= 0 succeeds and gives a grid
\* of exactly these dimensions whose cells are all dead, as get_cell then
\* reads them; a construction that fails was given a negative rows or cols.
C22_Construction ==
    /\ op = "new" =>
          /\ (arg.row >= 0 /\ arg.col >= 0) =>
                /\ exc = NoExc
                /\ rows = arg.row /\ cols = arg.col
                /\ Grid.shape = <<arg.row, arg.col>>
                /\ DOMAIN Grid.data = Indices(arg.row, arg.col)
                /\ \A p \in DOMAIN Grid.data : Grid.data[p] = 0
          /\ exc # NoExc => (arg.row < 0 \/ arg.col < 0)
    /\ (op = "get_cell" /\ WasInBounds(arg.row, arg.col)) => ret = 0 /\ exc = NoExc

\* an engine constructed without rows
C22_Witness ==
    /\ op = "new" /\ exc = NoExc
    /\ arg.row = 0 /\ arg.col = MaxCols
    /\ rows = 0 /\ cols = MaxCols
    /\ Grid = Zeros(0, MaxCols)

NextGeneration(a) ==
    [a EXCEPT !.data =
        [p \in DOMAIN a.data |->
            LET n == LiveNeighbours(a, p)
            IN  IF (a.data[p] = 1 /\ n \in {2, 3}) \/ (a.data[p] = 0 /\ n = 3)
                THEN 1 ELSE 0]]

\* C24: update() while running replaces the grid by its next generation and
\* adds 1 to generation; while paused it leaves the grid and generation as
\* they were; in both cases is_running stays as it was.
C24_Update ==
    [][op' = "update" =>
          /\ controller'.is_running = controller.is_running
          /\ IF controller.is_running
             THEN /\ Grid' = NextGeneration(Grid)
                  /\ controller'.generation = controller.generation + 1
             ELSE /\ Grid' = Grid
                  /\ controller'.generation = controller.generation]_vars

\* an update of the running simulation in which a live cell died
C24_Witness ==
    /\ op = "update"
    /\ controller.is_running
    /\ controller.generation = 1
    /\ Live(pre.grid) # {} /\ Live(Grid) = {}

\* the array a with the cell at p flipped and no other changed
Flipped(a, p) == [a EXCEPT !.data[p] = 1 - @]

\* C25: a click that the view maps to a cell flips exactly that cell when the
\* simulation is paused and changes no cell when it runs; _toggle_cell twice
\* on the same in-bounds cell gives back the grid from before the first.
C25_EditOnlyPaused ==
    [][/\ (op' = "handle_mouse_click" /\ clicked' # None) =>
             Grid' = IF controller.is_running THEN Grid ELSE Flipped(Grid, clicked')
       /\ (op = "toggle_cell" /\ op' = "toggle_cell" /\ arg' = arg) =>
             Grid' = pre.grid]_vars

\* a click that brought a cell to life while paused, in a grid of several cells
C25_Witness ==
    /\ op = "handle_mouse_click"
    /\ clicked # None
    /\ ~controller.is_running
    /\ Live(Grid) = {clicked}
    /\ Cardinality(DOMAIN Grid.data) > 1

\* whether the call that led here cleared the grid: clear_grid itself, a
\* click on the Clear button or the 'C' key
ClearInvoked ==
    \/ op = "clear_grid"
    \/ op = "handle_mouse_click" /\ input.key = "clear"
    \/ op = "handle_keyboard_input" /\ input.key = "K_c"

\* C26: however clear_grid is invoked and from whatever state, after it every
\* cell is dead, generation is 0, the simulation is paused and the dimensions
\* of the grid are those from before.
C26_ClearGrid ==
    [][ClearInvoked' =>
          /\ \A p \in DOMAIN Grid'.data : Grid'.data[p] = 0
          /\ controller'.generation = 0
          /\ ~controller'.is_running
          /\ rows' = rows /\ cols' = cols /\ Grid'.shape = Grid.shape
          /\ Grid'.shape = <<rows, cols>>]_vars

\* the 'C' key pressed while the simulation ran, at generation 1 with a live
\* cell: all is reset
C26_Witness ==
    /\ op = "handle_keyboard_input" /\ input.key = "K_c"
    /\ pre.controller.is_running /\ pre.controller.generation = 1
    /\ Live(pre.grid) # {}
    /\ Live(Grid) = {}
    /\ controller.generation = 0 /\ ~controller.is_running

\* whether the call that led here was a start, a pause, a press of SPACE
StartInvoked ==
    \/ op = "start_simulation"
    \/ op = "handle_mouse_click" /\ input.key = "start"

PauseInvoked ==
    \/ op = "pause_simulation"
    \/ op = "handle_mouse_click" /\ input.key = "pause"
    \/ op = "handle_keyboard_input" /\ input.key = "K_ESCAPE"

SpacePressed == op = "handle_keyboard_input" /\ input.key = "K_SPACE"

\* C27: the controller starts paused at generation 0; a start always leads to
\* running and a pause to paused, whatever the state before; SPACE flips
\* is_running and a second SPACE right after restores it; none of them
\* changes the grid or generation.
C27_RunPause ==
    /\ (op = "init" => ~controller.is_running /\ controller.generation = 0)
    /\ [][/\ StartInvoked' => controller'.is_running
          /\ PauseInvoked' => ~controller'.is_running
          /\ SpacePressed' => controller'.is_running = ~controller.is_running
          /\ (SpacePressed /\ SpacePressed') =>
                controller'.is_running = pre.controller.is_running
          /\ (StartInvoked' \/ PauseInvoked' \/ SpacePressed') =>
                /\ Grid' = Grid
                /\ controller'.generation = controller.generation]_vars

\* SPACE pausing a running simulation at generation 1 with a live cell
C27_Witness ==
    /\ SpacePressed
    /\ pre.controller.is_running /\ ~controller.is_running
    /\ controller.generation = 1
    /\ Live(Grid) # {}

\* whether the call that led here was load_pattern: the method itself, a
\* click on the Load button or the 'L' key
LoadInvoked ==
    \/ op = "load_pattern"
    \/ op = "handle_mouse_click" /\ input.key = "load"
    \/ op = "handle_keyboard_input" /\ input.key = "K_l"

\* C28: after every invocation of load_pattern the simulation is paused and
\* generation is 0.
C28_LoadPausesAndResets ==
    LoadInvoked => ~controller.is_running /\ controller.generation = 0

\* C29: set_simulation_speed(fps) makes target_fps equal to fps when fps > 0
\* and leaves it as it was otherwise; target_fps starts at 10 and is positive
\* in every state.
C29_TargetFps ==
    /\ (op = "init" => controller.target_fps = 10)
    /\ [](controller.target_fps > 0)
    /\ [][op' = "set_simulation_speed" =>
            controller'.target_fps =
                IF input'.fps > 0 THEN input'.fps ELSE controller.target_fps]_vars

\* a speed that was set to 1 and kept through a call with -1
C29_Witness ==
    /\ op = "set_simulation_speed"
    /\ input.fps = -1
    /\ controller.target_fps = 1

\* a view of 60 x 60 cells of size 10, however it came to be
LargeView ==
    exc = NoExc /\ view.grid_rows = 60 /\ view.grid_cols = 60 /\ view.cell_size = 10

\* C31: a view of 60 x 60 cells of size 10, constructed so or resized to it,
\* is as wide as its grid: screen_width is 600 and grid_offset_x is 0.
C31_LargeGridNoOffset ==
    LargeView => view.screen_width = 600 /\ view.grid_offset_x = 0

\* C40: the cell size of a view is at least 3, after its construction and
\* after every update_grid_dimensions.
C40_CellSizeAtLeast3 == exc = NoExc => view.cell_size >= 3

\* C32: in the paused controller of 20 x 20 cells of size 10 (on the dummy
\* screen, where the cell size is kept), a click at pixel (55, 55) is mapped
\* to cell (5, 5) and brings that cell, dead before, to life.
C32_ClickAt55 ==
    (/\ op = "handle_mouse_click"
     /\ input.pos = <<55, 55>>
     /\ view.cell_size = 10
     /\ ~controller.is_running) =>
        /\ clicked = <<5, 5>>
        /\ pre.grid.data[<<5, 5>>] = 0
        /\ Grid.data[<<5, 5>>] = 1

\* whether the call that led here was a load_pattern that loaded the file
\* the dialog returned
LoadedFile == LoadInvoked /\ input.path # Cancelled /\ exc = NoExc

C34_ViewMatchesEngine ==
    /\ view.grid_rows = rows /\ view.grid_cols = cols
    /\ Grid.shape = <<view.grid_rows, view.grid_cols>>
    /\ DOMAIN Grid.data = Indices(view.grid_rows, view.grid_cols)

\* a load that replaced a grid of two cells by the pattern of one cell
C34_Witness ==
    /\ LoadedFile
    /\ pre.rows * pre.cols = 2
    /\ rows = 1 /\ cols = 1
    /\ view.grid_rows = 1 /\ view.grid_cols = 1

\* whether the call that led here was a load_pattern whose file could not
\* be loaded
LoadFailed == LoadInvoked /\ input.path # Cancelled /\ exc # NoExc

C36_RenderShowsPattern ==
    (frame.rendered /\ controller.loaded_filename # None) =>
        /\ frame.grid = Grid
        /\ frame.is_running = controller.is_running
        /\ frame.generation = controller.generation
        /\ frame.fps = PyInt(controller.target_fps)
        /\ frame.filename = PyOptional(controller.loaded_filename)
        /\ frame.pattern_shown = PyOptional(controller.loaded_filename)

\* handle_events is being executed, or has returned
InEvents(name) == name \in {"get", "event", "handled"}

\* C37: every iteration of the main loop runs handle_events, then update,
\* then render: update acts on what the events of the iteration left and the
\* frame rendered is the grid and the generation after the step.  QUIT ends
\* handle_events with the events behind it unprocessed; then come one update
\* (one generation when running), one render and the cleanup, and nothing
\* after the cleanup.
C37_MainLoop ==
    [][/\ op # "cleanup"
       /\ op' = "get" => op \in {"init", "render"} /\ loop.running
       /\ op' = "event" => InEvents(op)
       /\ op' = "handled" => InEvents(op) /\ loop.events = <<>>
       /\ op' = "update" => InEvents(op)
       /\ InEvents(op) /\ ~InEvents(op') =>
             /\ op' = "update"
             /\ Grid' = IF controller.is_running THEN NextGeneration(Grid) ELSE Grid
             /\ controller'.generation =
                    controller.generation + IF controller.is_running THEN 1 ELSE 0
       /\ op = "update" =>
             /\ op' = "render"
             /\ frame'.rendered /\ frame'.grid = Grid
             /\ frame'.generation = controller.generation
             /\ frame'.grid =
                    IF pre.controller.is_running THEN NextGeneration(pre.grid)
                    ELSE pre.grid
             /\ Grid' = Grid /\ controller' = controller
       /\ op' = "render" => op = "update"
       /\ op' = "event" /\ input'.key = "QUIT" =>
             /\ ~loop'.running /\ loop'.events = <<>>
             /\ loop'.dropped = Len(loop.events) - 1
             /\ Grid' = Grid /\ controller' = controller /\ view' = view
       /\ ~loop.running /\ op = "event" => op' = "update"
       /\ ~loop.running /\ op = "render" =>
             /\ op' = "cleanup"
             /\ loop.updates_after_quit = 1 /\ loop.renders_after_quit = 1
             /\ Grid' = Grid /\ controller' = controller
       /\ op' = "cleanup" => ~loop.running /\ op = "render"]_vars

\* the window was closed while the simulation ran, with a key press queued
\* behind the QUIT: the loop made one more generation and is through
C37_Witness ==
    /\ op = "cleanup" /\ loop.dropped = 1
    /\ loop.updates_after_quit = 1 /\ loop.renders_after_quit = 1
    /\ controller.is_running /\ controller.generation = loop.frames
    /\ loop.frames > 1

\* C38: a step of a grid whose cells are all dead leaves them all dead, for
\* every grid size; so an update of the running simulation on a cleared grid
\* leaves the grid all dead and adds 1 to generation.
C38_AllDeadAbsorbing ==
    [][(op' = "update" /\ controller.is_running /\ Live(Grid) = {}) =>
          /\ Live(Grid') = {}
          /\ rows' = rows /\ cols' = cols
          /\ Grid'.shape = <<rows, cols>>
          /\ steps' = steps + 1
          /\ controller'.generation = controller.generation + 1
          /\ controller'.is_running]_vars

\* a grid of the largest size had a live cell, was cleared with the C key and
\* the simulation was started again and has made a generation
C38_Witness ==
    /\ op = "update" /\ loop.cleared /\ controller.is_running
    /\ controller.generation = 1 /\ steps = 1
    /\ rows = MaxRows /\ cols = MaxCols
    /\ Live(Grid) = {}

\* C39: set_cell stores the state it is given in a cell of the grid as it
\* is, 0 or 1 or not, and leaves the other cells alone; after a step every
\* cell is 0 or 1, and a cell that held another value before the step is
\* dead, whatever the count of its neighbours.
C39_StepNormalises ==
    [][/\ op' = "set_cell" =>
             /\ exc' = NoExc
             /\ Grid' = [Grid EXCEPT !.data[<<arg'.row, arg'.col>>] = arg'.state]
       /\ op' = "step" =>
             /\ exc' = NoExc
             /\ Grid'.shape = Grid.shape
             /\ \A p \in DOMAIN Grid.data :
                   /\ Grid'.data[p] \in {0, 1}
                   /\ Grid.data[p] \notin {0, 1} => Grid'.data[p] = 0]_vars

\* a step was made of a grid in which a cell holding 2 had three live
\* neighbours, and is dead, while its neighbours of five are dead as well
C39_Witness ==
    /\ op = "step" /\ pre.grid # NoArray
    /\ \E p \in DOMAIN pre.grid.data :
          /\ pre.grid.data[p] = 2
          /\ CountNeighborsOf(pre.grid).data[p] = 3
          /\ Grid.data[p] = 0
          /\ \A q \in DOMAIN pre.grid.data \ {p} :
                pre.grid.data[q] = 1 /\ CountNeighborsOf(pre.grid).data[q] = 4
    /\ \A p \in DOMAIN Grid.data : Grid.data[p] \in {0, 1}

=============================================================================
